---- MODULE Spec2Model ----
(***************************************************************************)
(* A state-machine model of the SafePOSIX socket layer                     *)
(* (src/src/safeposix/syscalls/net_calls.rs) and of the metadata store it  *)
(* binds Unix-domain sockets into (src/src/safeposix/filesystem.rs).       *)
(*                                                                         *)
(* An Option<T> of the source is a set with at most one element: {} is     *)
(* None and {x} is Some(x).  A syscall's negative return value -E is the   *)
(* string "E"; a successful return is "OK" together with a count n.        *)
(***************************************************************************)
EXTENDS Integers, Sequences, FiniteSets, TLC

VARIABLES
    fdtable,              \* the cage's fd table: fd -> socket descriptor + handle
    port_table,           \* NET_METADATA: the local ports reserved in the port allocator
    listening_port_set,   \* NET_METADATA.listening_port_set
    domsock_paths,        \* NET_METADATA.domsock_paths
    domsock_accept_table, \* NET_METADATA.domsock_accept_table: path -> DomsockTableEntry
    inodetable,           \* FS_METADATA.inodetable
    nextinode,            \* FS_METADATA.nextinode
    ud_counter,           \* the counter behind gen_ud_path
    pipes,                \* the byte queues of the Unix-domain socket pipes
    kernel_rx,            \* fd -> what the kernel socket behind the fd has received
    history,              \* fd -> the bytes that arrived for the fd and the bytes recv returned
    threads,              \* the threads inside a Unix-domain connect or accept
    files,                \* the host files behind EmulatedFile and EmulatedFileMap
    last,                 \* the last syscall that returned: arguments, result, handle before/after
    calls                 \* the number of syscalls made so far

fsvars == <<inodetable, nextinode, domsock_paths>>
vars == <<fdtable, port_table, listening_port_set, domsock_accept_table, fsvars,
          ud_counter, pipes, kernel_rx, history, threads, files, last, calls>>

-----------------------------------------------------------------------------
(* Bounds of the model *)

\* syscalls made in a run of the socket state machine
MaxCalls == 5
\* fds of the cage's table that the model uses
MaxFd == 4
\* local ports known to the port allocator
MaxPort == 2
\* pipes that may be created in a run
MaxPipes == 4
\* bytes a pipe holds
PipeCap == 3
\* synthetic Unix-domain paths that gen_ud_path hands out in a run
MaxUd == 4
\* bytes or datagrams a peer delivers to a kernel socket in a run
MaxArrive == 3
\* the longest buffer a recv call passes
MaxBuf == 3

Fds == 1..MaxFd
Ports == 1..MaxPort

-----------------------------------------------------------------------------
(* Option helpers *)

None == {}
\* No host file is open
NoFiles == <<>>
Some(x) == {x}
unwrap(o) == CHOOSE x \in o : TRUE

Min(S) == CHOOSE x \in S : \A y \in S : x <= y

-----------------------------------------------------------------------------
(* Socket addresses: GenSockaddr as a record of family, port and path *)

InetAddr(p) == [family |-> "AF_INET", port |-> p, path |-> <<>>]
UnixAddr(path) == [family |-> "AF_UNIX", port |-> 0, path |-> path]

ConnStates == {"NOTCONNECTED", "CONNECTED", "CONNRDONLY", "CONNWRONLY", "LISTEN", "INPROGRESS"}
Hows == {"SHUT_RD", "SHUT_WR", "SHUT_RDWR"}

-----------------------------------------------------------------------------
(* The filesystem metadata: inode table and path resolution *)

\* init_filename_to_inode_dict: the entry table of a fresh directory
init_filename_to_inode_dict(curinode, parentinode) ==
    [n \in {".", ".."} |-> IF n = "." THEN curinode ELSE parentinode]

\* The inode number of the root directory
ROOTDIRECTORYINODE == 1

DirInode(mode, linkcount, dict) ==
    [type |-> "Dir", mode |-> mode, linkcount |-> linkcount, refcount |-> 0, dict |-> dict]
CharDevInode ==
    [type |-> "CharDev", mode |-> "S_IFCHR|0666", linkcount |-> 1, refcount |-> 0,
     dict |-> <<>>]
SocketInode ==
    [type |-> "Socket", mode |-> "S_IFSOCK|perm", linkcount |-> 1, refcount |-> 1,
     dict |-> <<>>]

\* blank_fs_init: only the root directory, linkcount 3
blank_fs_init ==
    [inodetable |-> [n \in {ROOTDIRECTORYINODE} |->
         DirInode("S_IFDIR|0777", 3,
                  init_filename_to_inode_dict(ROOTDIRECTORYINODE, ROOTDIRECTORYINODE))]]

\* format_fs: the fresh tree that load_fs writes when there is no snapshot
format_fs ==
    LET root == blank_fs_init.inodetable[ROOTDIRECTORYINODE]
        rootdict == [n \in {".", "..", "dev"} |-> IF n = "dev" THEN 2 ELSE ROOTDIRECTORYINODE]
        devchildren == [n \in {"..", ".", "null", "zero", "urandom", "random"} |->
                          CASE n = ".." -> 1 [] n = "." -> 2 [] n = "null" -> 3
                            [] n = "zero" -> 4 [] n = "urandom" -> 5 [] n = "random" -> 6]
        tmpchildren == [n \in {"..", "."} |-> IF n = ".." THEN 1 ELSE 2]
    IN  [nextinode |-> 8,
         inodetable |-> [n \in 1..7 |->
            CASE n = 1 -> [root EXCEPT !.dict = rootdict, !.linkcount = @ + 1]
              [] n = 2 -> DirInode("S_IFDIR|0755", 3 + 4, devchildren)
              [] n \in 3..6 -> CharDevInode
              [] n = 7 -> DirInode("S_IFDIR|0755", 3 + 4, tmpchildren)]]

\* metawalkandparent: walk the components of a normalized path from the root.
\* The result is (inode?, parent?); panic records the unwrap of a missing inode.
RECURSIVE walk(_, _, _, _, _)
walk(it, path, i, inodeno, previnodeno) ==
    IF i > Len(path) THEN [inode |-> inodeno, parent |-> previnodeno, panic |-> FALSE]
    ELSE IF inodeno = None THEN [inode |-> None, parent |-> None, panic |-> FALSE]
    ELSE IF unwrap(inodeno) \notin DOMAIN it
         THEN [inode |-> None, parent |-> None, panic |-> TRUE]
    ELSE LET cur == it[unwrap(inodeno)] IN
         IF cur.type # "Dir" THEN [inode |-> None, parent |-> None, panic |-> FALSE]
         ELSE IF path[i] \in DOMAIN cur.dict
              THEN walk(it, path, i + 1, Some(cur.dict[path[i]]), inodeno)
              ELSE walk(it, path, i + 1, None, inodeno)

metawalkandparent(it, path) == walk(it, path, 1, Some(ROOTDIRECTORYINODE), None)

metawalk(it, path) == metawalkandparent(it, path).inode

\* gen_ud_path: the k-th synthetic Unix-domain path
UdNames == <<"ud1", "ud2", "ud3", "ud4", "ud5", "ud6", "ud7", "ud8">>
gen_ud_path(k) == <<UdNames[k + 1]>>

\* normpath: resolve "." and ".." against the root (the cage's cwd is "/")
RECURSIVE normfold(_, _, _)
normfold(origp, i, newp) ==
    IF i > Len(origp) THEN newp
    ELSE IF origp[i] = ".." THEN
        normfold(origp, i + 1, IF newp = <<>> THEN <<>> ELSE SubSeq(newp, 1, Len(newp) - 1))
    ELSE IF origp[i] = "." THEN normfold(origp, i + 1, newp)
    ELSE normfold(origp, i + 1, Append(newp, origp[i]))

normpath(origp) == normfold(origp, 1, <<>>)

-----------------------------------------------------------------------------
(* Socket descriptors and handles.  Every fd of the model owns its handle,  *)
(* so SocketDesc (flags) and SocketHandle are one record.  innersocket is   *)
(* "none" for None and else the state of the kernel socket.                 *)

NoSock ==
    [used |-> FALSE, nonblock |-> FALSE, cloexec |-> FALSE, domain |-> "AF_INET",
     protocol |-> "IPPROTO_TCP", state |-> "NOTCONNECTED", localaddr |-> None,
     remoteaddr |-> None,
     innersocket |-> "none", unix_info |-> None, last_peek |-> <<>>]

\* mksockhandle and _socket_initializer
mksockhandle(domain, protocol, conn, nonblocking) ==
    [NoSock EXCEPT !.used = TRUE, !.nonblock = nonblocking, !.domain = domain,
                   !.protocol = protocol, !.state = conn]

UnixSocketInfo(inode, sendpipe, receivepipe) ==
    [inode |-> inode, sendpipe |-> sendpipe, receivepipe |-> receivepipe]

\* get_next_fd: the lowest free fd of the cage, None when the table is full
get_next_fd(fdt) ==
    IF \E fd \in Fds : ~fdt[fd].used
    THEN Some(Min({fd \in Fds : ~fdt[fd].used}))
    ELSE None

\* The shared tables a call may change, passed through the helpers as one record
World == [table |-> port_table, it |-> inodetable, nextinode |-> nextinode,
          paths |-> domsock_paths]

-----------------------------------------------------------------------------
(* The port allocator (C4 of the design) *)

\* _reserve_localport: the requested port if it is free, an ephemeral port for
\* port 0, AddressInUse otherwise
reserve_localport(table, port) ==
    IF port # 0
    THEN IF port \in table THEN [ok |-> FALSE, port |-> 0] ELSE [ok |-> TRUE, port |-> port]
    ELSE IF Ports \ table = {} THEN [ok |-> FALSE, port |-> 0]
         ELSE [ok |-> TRUE, port |-> Min(Ports \ table)]

\* _release_localport: an error when the port is not reserved
release_localport(table, port) ==
    IF port \in table THEN [ok |-> TRUE, table |-> table \ {port}]
    ELSE [ok |-> FALSE, table |-> table]

-----------------------------------------------------------------------------
(* The kernel sockets behind inet handles: what a kernel call may answer in *)
(* each state of the kernel socket                                          *)

KernelBindResults(k) == IF k = "fresh" THEN {"OK", "EADDRINUSE"} ELSE {"EINVAL"}
KernelConnectResults(k) ==
    IF k \in {"fresh", "bound"} THEN {"OK", "EINPROGRESS", "ECONNREFUSED"} ELSE {"EISCONN"}
KernelListenResults(k) ==
    IF k \in {"fresh", "bound", "listening"} THEN {"OK", "EADDRINUSE"} ELSE {"EINVAL"}
KernelShutdownResults(k) ==
    IF k \in {"connected", "connecting"} THEN {"OK"}
    ELSE IF k = "listening" THEN {"OK", "ENOTCONN"} ELSE {"ENOTCONN"}

-----------------------------------------------------------------------------
(* bind *)

\* force_innersocket: creates the kernel socket if none exists
force_innersocket(h) ==
    IF h.innersocket = "none" THEN [h EXCEPT !.innersocket = "fresh"] ELSE h

bind_inner_socket_unix(h, newsockaddr, w) ==
    LET path == newsockaddr.path
        truepath == normpath(path)
        mw == metawalkandparent(w.it, truepath)
    IN  IF Len(path) = 0 THEN [h |-> h, w |-> w, err |-> "ENOENT"]
        ELSE IF mw.inode = None /\ mw.parent = None THEN [h |-> h, w |-> w, err |-> "ENOENT"]
        ELSE IF mw.inode = None THEN
            LET pardirinode == unwrap(mw.parent)
                filename == truepath[Len(truepath)]
                newinodenum == w.nextinode
                w1 == [w EXCEPT !.nextinode = @ + 1]
            IN  IF w.it[pardirinode].type = "Dir"
                THEN LET dir == w.it[pardirinode]
                         newdict == [n \in DOMAIN dir.dict \cup {filename} |->
                                        IF n = filename THEN newinodenum ELSE dir.dict[n]]
                         newdir == [dir EXCEPT !.dict = newdict, !.linkcount = @ + 1]
                         it1 == [n \in DOMAIN w.it \cup {newinodenum} |->
                                    IF n = newinodenum THEN SocketInode
                                    ELSE IF n = pardirinode THEN newdir ELSE w.it[n]]
                     IN  [h |-> [h EXCEPT !.unix_info =
                                    Some(UnixSocketInfo(newinodenum, None, None))],
                          w |-> [w1 EXCEPT !.it = it1, !.paths = @ \cup {truepath}],
                          err |-> "OK"]
                ELSE [h |-> h, w |-> w1, err |-> "ENOTDIR"]
        ELSE [h |-> h, w |-> w, err |-> "EADDRINUSE"]

\* kres is the answer of the kernel's bind
bind_inner_socket_inet(h, newsockaddr, prereserved, w, kres) ==
    LET h1 == force_innersocket(h)
        localout == IF prereserved THEN [ok |-> TRUE, port |-> newsockaddr.port]
                    ELSE reserve_localport(w.table, newsockaddr.port)
    IN  IF ~localout.ok THEN [h |-> h1, w |-> w, addr |-> newsockaddr, err |-> "EADDRINUSE"]
        ELSE LET addr == [newsockaddr EXCEPT !.port = localout.port]
                 w1 == [w EXCEPT !.table = @ \cup {localout.port}]
             IN  IF kres = "OK"
                 THEN [h |-> [h1 EXCEPT !.innersocket = "bound"], w |-> w1,
                       addr |-> addr, err |-> "OK"]
                 ELSE [h |-> h1, w |-> w1, addr |-> addr, err |-> kres]

\* The local address a bind records in the handle
bind_localaddr(newsockaddr) == Some(newsockaddr)

\* A bind that takes every handle for unbound
never_bound(h) == FALSE

\* Whether the handle is already bound to an address
already_bound(h) == h.localaddr # None

bind_inner_socket(h, localaddr, prereserved, w, kres) ==
    IF localaddr.family # h.domain THEN [h |-> h, w |-> w, err |-> "EINVAL"]
    ELSE IF already_bound(h) THEN [h |-> h, w |-> w, err |-> "EINVAL"]
    ELSE IF h.domain = "AF_UNIX" THEN
        LET r == bind_inner_socket_unix(h, localaddr, w)
        IN  [h |-> [r.h EXCEPT !.localaddr = bind_localaddr(localaddr)], w |-> r.w, err |-> r.err]
    ELSE
        LET r == bind_inner_socket_inet(h, localaddr, prereserved, w, kres)
        IN  [h |-> [r.h EXCEPT !.localaddr = bind_localaddr(r.addr)], w |-> r.w, err |-> r.err]

-----------------------------------------------------------------------------
(* connect on an inet TCP socket *)

\* kbind and kconn are the answers of the kernel's bind and connect
connect_tcp_inet(h, remoteaddr, w, kbind, kconn) ==
    IF h.state # "NOTCONNECTED" THEN [h |-> h, w |-> w, err |-> "EISCONN"]
    ELSE
    LET h1 == force_innersocket(h)
        res == reserve_localport(w.table, 0)
        w1 == [w EXCEPT !.table = @ \cup {res.port}]
        bound == IF h.localaddr # None THEN [ret |-> FALSE, h |-> h, w |-> w, err |-> "OK"]
                 ELSE IF ~res.ok THEN [ret |-> TRUE, h |-> h1, w |-> w, err |-> "EADDRINUSE"]
                 ELSE IF kbind # "OK"
                      THEN [ret |-> TRUE,
                            h |-> [h1 EXCEPT !.localaddr = Some(InetAddr(res.port))],
                            w |-> w1, err |-> kbind]
                      ELSE [ret |-> FALSE, h |-> [h1 EXCEPT !.innersocket = "bound"],
                            w |-> w1, err |-> "OK"]
    IN  IF bound.ret THEN [h |-> bound.h, w |-> bound.w, err |-> bound.err]
        ELSE IF kconn \notin {"OK", "EINPROGRESS"}
             THEN [h |-> bound.h, w |-> bound.w, err |-> kconn]
        ELSE IF kconn = "EINPROGRESS"
             THEN [h |-> [bound.h EXCEPT !.state = "INPROGRESS", !.innersocket = "connecting",
                                         !.remoteaddr = Some(remoteaddr)],
                   w |-> bound.w, err |-> "EINPROGRESS"]
        ELSE [h |-> [bound.h EXCEPT !.state = "CONNECTED", !.innersocket = "connected",
                                    !.remoteaddr = Some(remoteaddr)],
              w |-> bound.w, err |-> "OK"]

-----------------------------------------------------------------------------
(* listen *)

\* _implicit_bind: reserve an ephemeral port and bind to it when unbound
implicit_bind(h, domain, w, kbind) ==
    IF h.localaddr # None THEN [h |-> h, w |-> w, err |-> "OK"]
    ELSE LET res == reserve_localport(w.table, 0)
         IN  IF ~res.ok THEN [h |-> h, w |-> w, err |-> "EADDRINUSE"]
             ELSE bind_inner_socket(h, [family |-> domain, port |-> res.port, path |-> <<>>],
                                    TRUE, [w EXCEPT !.table = @ \cup {res.port}], kbind)

\* The result is the handle, the tables, the listening set and the return value
listen_handle(h, w, listening, kbind, klisten) ==
    IF h.state = "LISTEN" THEN [h |-> h, w |-> w, listening |-> listening, err |-> "OK"]
    ELSE IF h.state # "NOTCONNECTED"
         THEN [h |-> h, w |-> w, listening |-> listening, err |-> "EOPNOTSUPP"]
    ELSE IF h.protocol # "IPPROTO_TCP"
         THEN [h |-> h, w |-> w, listening |-> listening, err |-> "EOPNOTSUPP"]
    ELSE IF h.domain = "AF_UNIX"
         THEN [h |-> [h EXCEPT !.state = "LISTEN"], w |-> w, listening |-> listening,
               err |-> "OK"]
    ELSE LET ib == implicit_bind(h, h.domain, w, kbind)
         IN  IF ib.err # "OK"
             THEN [h |-> ib.h, w |-> ib.w, listening |-> listening, err |-> ib.err]
             ELSE LET porttuple == unwrap(ib.h.localaddr).port
                  IN  IF klisten # "OK"
                      THEN [h |-> [ib.h EXCEPT !.state = "NOTCONNECTED"], w |-> ib.w,
                            listening |-> listening \ {porttuple}, err |-> klisten]
                      ELSE [h |-> [ib.h EXCEPT !.state = "LISTEN",
                                               !.innersocket = "listening"],
                            w |-> ib.w, listening |-> listening \cup {porttuple},
                            err |-> "OK"]

-----------------------------------------------------------------------------
(* shutdown and the cleanup shared with close *)

\* The state a shutdown of direction how leaves a handle in
shutdown_state(state, how) ==
    CASE how = "SHUT_RD" -> IF state = "CONNWRONLY" THEN "NOTCONNECTED" ELSE "CONNWRONLY"
      [] how = "SHUT_WR" -> IF state = "CONNRDONLY" THEN "NOTCONNECTED" ELSE "CONNRDONLY"
      [] how = "SHUT_RDWR" -> "NOTCONNECTED"
      [] OTHER -> state

\* Whether a shutdown of direction how releases the local port
shutdown_releaseflag(state, how) ==
    CASE how = "SHUT_RD" -> state = "CONNRDONLY"
      [] how = "SHUT_WR" -> state = "CONNWRONLY"
      [] how = "SHUT_RDWR" -> TRUE
      [] OTHER -> FALSE

\* _cleanup_socket_inner_helper; kshut is the answer of the kernel's shutdown
cleanup_socket_inner_helper(h, how, shutdown, table, kshut) ==
    LET inet == h.domain # "AF_UNIX"
        has == inet /\ h.innersocket # "none"
        kfail == has /\ shutdown /\ kshut # "OK"
        badhow == has /\ shutdown /\ how \notin Hows
        releaseflag == has /\ (IF shutdown THEN shutdown_releaseflag(h.state, how) ELSE TRUE)
        h1 == IF has /\ ~shutdown THEN [h EXCEPT !.innersocket = "none"] ELSE h
        dorel == releaseflag /\ h1.localaddr # None
        rel == IF dorel THEN release_localport(table, unwrap(h1.localaddr).port)
               ELSE [ok |-> TRUE, table |-> table]
        h2 == IF dorel THEN [h1 EXCEPT !.localaddr = None] ELSE h1
    IN  IF kfail THEN [h |-> h, table |-> table, err |-> kshut]
        ELSE IF badhow THEN [h |-> h, table |-> table, err |-> "EINVAL"]
        ELSE IF ~rel.ok THEN [h |-> h2, table |-> rel.table, err |-> "EINVAL"]
        ELSE IF how \notin Hows THEN [h |-> h2, table |-> rel.table, err |-> "EINVAL"]
        ELSE [h |-> [h2 EXCEPT !.state = shutdown_state(h2.state, how)],
              table |-> rel.table, err |-> "OK"]

\* _cleanup_socket: SHUT_RDWR also takes the descriptor out of the fd table
cleanup_socket_fd(h, how, err) ==
    IF err = "OK" /\ how = "SHUT_RDWR" THEN NoSock ELSE h

-----------------------------------------------------------------------------
(* send on a TCP socket *)

\* The states in which send on a Unix-domain stream socket goes to the pipe
send_unix_ok(state) == state = "CONNECTED"
\* The states in which send on an inet TCP socket goes to the kernel
send_inet_ok(state) == state = "CONNECTED" \/ state = "CONNWRONLY"

\* write_to_pipe: the bytes of buf a pipe with queue q takes; -1 when a
\* nonblocking write finds the pipe full
write_to_pipe(q, buf, nonblocking) ==
    LET space == PipeCap - Len(q)
        n == IF Len(buf) <= space THEN Len(buf) ELSE space
    IN  IF n = 0 /\ Len(buf) > 0 THEN [n |-> -1, q |-> q]
        ELSE [n |-> n, q |-> q \o SubSeq(buf, 1, n)]

\* ksend is the answer of the kernel's send
send_handle(h, ps, buf, ksend) ==
    IF h.domain = "AF_UNIX" THEN
        IF ~send_unix_ok(h.state) THEN [ps |-> ps, err |-> "ENOTCONN", n |-> 0]
        ELSE IF h.unix_info = None THEN [ps |-> ps, err |-> "EINPROGRESS", n |-> 0]
        ELSE IF unwrap(h.unix_info).sendpipe = None THEN [ps |-> ps, err |-> "EAGAIN", n |-> 0]
        ELSE LET sp == unwrap(unwrap(h.unix_info).sendpipe)
                 r == write_to_pipe(ps[sp], buf, h.nonblock)
             IN  IF r.n < 0 THEN [ps |-> ps, err |-> "EAGAIN", n |-> 0]
                 ELSE [ps |-> [ps EXCEPT ![sp] = r.q], err |-> "OK", n |-> r.n]
    ELSE
        IF ~send_inet_ok(h.state) THEN [ps |-> ps, err |-> "ENOTCONN", n |-> 0]
        ELSE IF ksend # "OK" THEN [ps |-> ps, err |-> ksend, n |-> 0]
        ELSE [ps |-> ps, err |-> "OK", n |-> Len(buf)]

-----------------------------------------------------------------------------
(* recv on a stream socket: recv_common_inner_tcp *)

Min2(a, b) == IF a <= b THEN a ELSE b

\* A recv that drains last_peek under MSG_PEEK too
drain_always(last_peek, bytecount, flags) ==
    SubSeq(last_peek, bytecount + 1, Len(last_peek))

\* What a recv leaves in last_peek after copying bytecount bytes out of it:
\* under MSG_PEEK nothing is consumed, otherwise the copied prefix is drained
drain_last_peek(last_peek, bytecount, flags) ==
    IF flags = "MSG_PEEK" THEN last_peek
    ELSE SubSeq(last_peek, bytecount + 1, Len(last_peek))

\* The first part of a recv: the bytes served from last_peek
recv_from_peek(h, buflen, flags) ==
    [data |-> SubSeq(h.last_peek, 1, Min2(Len(h.last_peek), buflen)),
     last_peek |-> drain_last_peek(h.last_peek, Min2(Len(h.last_peek), buflen), flags),
     newbuflen |-> buflen - Min2(Len(h.last_peek), buflen)]

\* The second part: the read from the receive queue q (the pipe of a Unix-domain
\* socket, the kernel socket of an inet one), which fails with EAGAIN when q is empty
recv_from_queue(h, q, buflen, flags, pk) ==
    IF Len(h.last_peek) > 0 /\ pk.newbuflen = 0
    THEN [h |-> [h EXCEPT !.last_peek = pk.last_peek], q |-> q, err |-> "OK",
          data |-> pk.data]
    ELSE IF Len(q) = 0
    THEN IF buflen # pk.newbuflen
         THEN [h |-> [h EXCEPT !.last_peek = pk.last_peek], q |-> q, err |-> "OK",
               data |-> pk.data]
         ELSE [h |-> [h EXCEPT !.last_peek = pk.last_peek], q |-> q,
               err |-> IF h.nonblock THEN "EAGAIN" ELSE "BLOCKED", data |-> <<>>]
    ELSE [h |-> [h EXCEPT !.last_peek =
                    IF flags = "MSG_PEEK"
                    THEN pk.last_peek \o SubSeq(q, 1, Min2(pk.newbuflen, Len(q)))
                    ELSE pk.last_peek],
          q |-> SubSeq(q, Min2(pk.newbuflen, Len(q)) + 1, Len(q)),
          err |-> "OK",
          data |-> pk.data \o SubSeq(q, 1, Min2(pk.newbuflen, Len(q)))]

\* Whether the handle has a queue to receive from; a Unix-domain handle without
\* pipes makes recv panic on an unwrap
has_receive_queue(h) ==
    IF h.domain = "AF_UNIX"
    THEN h.unix_info # None /\ unwrap(h.unix_info).receivepipe # None
    ELSE h.innersocket # "none"

\* connd is the answer of check_rawconnection for a handle that is INPROGRESS
recv_common_inner_tcp(h, q, buflen, flags, connd) ==
    LET h0 == IF h.state = "INPROGRESS" /\ connd
              THEN [h EXCEPT !.state = "CONNECTED", !.innersocket = "connected"]
              ELSE h
    IN  IF h0.state # "CONNECTED" /\ h0.state # "CONNRDONLY"
        THEN [h |-> h0, q |-> q, err |-> "ENOTCONN", data |-> <<>>]
        ELSE IF ~has_receive_queue(h0)
        THEN [h |-> h0, q |-> q, err |-> "PANIC", data |-> <<>>]
        ELSE recv_from_queue(h0, q, buflen, flags, recv_from_peek(h0, buflen, flags))

\* The kernel's recvfrom on a datagram socket: the first datagram of the queue,
\* cut to buflen, leaves the queue
kernel_recvfrom_dgram(h, q, buflen) ==
    IF Len(q) = 0
    THEN [h |-> h, q |-> q, err |-> IF h.nonblock THEN "EAGAIN" ELSE "BLOCKED", data |-> <<>>]
    ELSE [h |-> h, q |-> Tail(q), err |-> "OK",
          data |-> SubSeq(Head(q), 1, Min2(buflen, Len(Head(q))))]

\* recv_common_inner_udp: an implicit bind when unbound, then the kernel's recvfrom;
\* the flags of the call are not passed on
recv_udp_bound(ib, q, buflen) ==
    IF ib.err # "OK" THEN [h |-> ib.h, w |-> ib.w, q |-> q, err |-> ib.err, data |-> <<>>]
    ELSE [w |-> ib.w] @@ kernel_recvfrom_dgram(ib.h, q, buflen)

recv_common_inner_udp(h, w, q, buflen, kbind) ==
    recv_udp_bound(implicit_bind(h, "AF_INET", w, kbind), q, buflen)

\* recv_common_inner: by the protocol of the handle
recv_common_inner(h, w, q, buflen, flags, connd, kbind) ==
    IF h.protocol = "IPPROTO_TCP"
    THEN [w |-> w] @@ recv_common_inner_tcp(h, q, buflen, flags, connd)
    ELSE recv_common_inner_udp(h, w, q, buflen, kbind)

-----------------------------------------------------------------------------
(* socketpair *)

\* create_unix_sockpipes: two fresh, empty pipes
create_unix_sockpipes(ps) ==
    [ps |-> ps \o <<(<<>>), (<<>>)>>, pipe1 |-> Len(ps) + 1, pipe2 |-> Len(ps) + 2]

\* The refcount of a socket inode grows by one
incref_socket(it, inodenum) ==
    IF it[inodenum].type = "Socket" THEN [it EXCEPT ![inodenum].refcount = @ + 1] ELSE it

\* A socketpair whose ends receive from the pipes they send to
socketpair_pipes_looped(cp) ==
    [send1 |-> cp.pipe1, recv1 |-> cp.pipe1, send2 |-> cp.pipe2, recv2 |-> cp.pipe2]

\* The pipes each end of a socketpair sends to and receives from
socketpair_pipes(cp) ==
    [send1 |-> cp.pipe1, recv1 |-> cp.pipe2, send2 |-> cp.pipe2, recv2 |-> cp.pipe1]

set_pipes(h, sendpipe, receivepipe) ==
    [h EXCEPT !.unix_info = Some([unwrap(h.unix_info) EXCEPT
                                     !.sendpipe = Some(sendpipe),
                                     !.receivepipe = Some(receivepipe)])]

socketpair_wire(b1, b2, cp, wiring, localaddr1, localaddr2) ==
    [sock1 |-> [set_pipes(b1.h, wiring.send1, wiring.recv1) EXCEPT
                    !.remoteaddr = Some(localaddr2), !.state = "CONNECTED"],
     sock2 |-> [set_pipes(b2.h, wiring.send2, wiring.recv2) EXCEPT
                    !.remoteaddr = Some(localaddr1), !.state = "CONNECTED"],
     w |-> [b2.w EXCEPT !.it = incref_socket(incref_socket(b2.w.it,
                                   unwrap(b1.h.unix_info).inode),
                                   unwrap(b2.h.unix_info).inode)],
     ps |-> cp.ps]

socketpair_bind2(b1, sock2, cp, localaddr1, localaddr2) ==
    socketpair_wire(b1, bind_inner_socket(sock2, localaddr2, FALSE, b1.w, "OK"), cp,
                    socketpair_pipes(cp), localaddr1, localaddr2)

\* The two connected handles of a socketpair and the tables after it
socketpair_handles(nonblocking, w, ps, udc) ==
    socketpair_bind2(
        bind_inner_socket(mksockhandle("AF_UNIX", "IPPROTO_TCP", "NOTCONNECTED", nonblocking),
                          UnixAddr(gen_ud_path(udc)), FALSE, w, "OK"),
        mksockhandle("AF_UNIX", "IPPROTO_TCP", "NOTCONNECTED", nonblocking),
        create_unix_sockpipes(ps),
        UnixAddr(gen_ud_path(udc)), UnixAddr(gen_ud_path(udc + 1)))

-----------------------------------------------------------------------------
(* The Unix-domain rendezvous: connect_tcp_unix and accept_unix *)

DomsockTableEntry(sockaddr, receive_pipe, send_pipe, cond_var) ==
    [sockaddr |-> sockaddr, receive_pipe |-> receive_pipe, send_pipe |-> send_pipe,
     cond_var |-> cond_var]

EmptyTable == [p \in {} |-> 0]

\* DashMap insert: the entry replaces what the key held
table_insert(t, k, e) == [p \in DOMAIN t \cup {k} |-> IF p = k THEN e ELSE t[p]]
\* DashMap remove
table_remove(t, k) == [p \in DOMAIN t \ {k} |-> t[p]]

\* A connect that never waits
connect_never_waits(nonblock) == FALSE

\* Whether connect waits on the cond_var of its entry
connect_waits(nonblock) == ~nonblock

\* The implicit bind of connect_tcp_unix; its result is not looked at
connect_unix_bind(h, w, udc) ==
    IF h.localaddr = None
    THEN [udc |-> udc + 1] @@
         bind_inner_socket(h, UnixAddr(gen_ud_path(udc)), FALSE, w, "OK")
    ELSE [h |-> h, w |-> w, err |-> "OK", udc |-> udc]

\* connect_tcp_unix from the lookup of the remote path on; cv names the cond_var
connect_unix_publish(b, remoteaddr, table, cp, cv) ==
    IF normpath(remoteaddr.path) \notin b.w.paths
    THEN [h |-> b.h, w |-> b.w, udc |-> b.udc, table |-> table, ps |-> cp.ps0,
          err |-> "ENOENT", wait |-> FALSE]
    ELSE IF b.h.unix_info = None
    THEN [h |-> [b.h EXCEPT !.remoteaddr = Some(remoteaddr)], w |-> b.w, udc |-> b.udc,
          table |-> table, ps |-> cp.ps, err |-> "PANIC", wait |-> FALSE]
    ELSE [h |-> [set_pipes(b.h, cp.pipe1, cp.pipe2) EXCEPT
                    !.remoteaddr = Some(remoteaddr), !.state = "CONNECTED"],
          w |-> b.w, udc |-> b.udc,
          table |-> table_insert(table, normpath(remoteaddr.path),
                        DomsockTableEntry(unwrap(b.h.localaddr), cp.pipe1, cp.pipe2,
                            IF connect_waits(b.h.nonblock) THEN Some(cv) ELSE None)),
          ps |-> cp.ps, err |-> "OK", wait |-> connect_waits(b.h.nonblock)]

connect_tcp_unix(h, remoteaddr, w, table, ps, udc, cv) ==
    connect_unix_publish(connect_unix_bind(h, w, udc), remoteaddr, table,
                         [ps0 |-> ps] @@ create_unix_sockpipes(ps), cv)

\* ConnCondVar::broadcast: wakes the waiter and answers whether there was one
broadcast(conn, cv) == conn[cv] = "waiting"

\* The handle accept_unix builds from the entry ds it took
accept_unix_handle(listener, ds, it) ==
    LET inodenum == metawalk(it, normpath(ds.sockaddr.path))
        newsock == [mksockhandle(listener.domain, listener.protocol, "CONNECTED",
                                 listener.nonblock) EXCEPT
                        !.localaddr = listener.localaddr,
                        !.remoteaddr = Some(ds.sockaddr)]
    IN  IF inodenum = None THEN [h |-> newsock, it |-> it]
        ELSE [h |-> [newsock EXCEPT !.unix_info =
                        Some(UnixSocketInfo(unwrap(inodenum), Some(ds.send_pipe),
                                            Some(ds.receive_pipe)))],
              it |-> incref_socket(it, unwrap(inodenum))]

-----------------------------------------------------------------------------
(* The record of the last call that returned *)

Call(op, fd, how, err, n, data, pre, post, rel) ==
    [op |-> op, fd |-> fd, how |-> how, len |-> 0, err |-> err, n |-> n, data |-> data,
     pre |-> pre, post |-> post, rel |-> rel, args |-> <<>>]

NoCall == Call("none", 0, "none", "OK", 0, <<>>, NoSock, NoSock, {})

\* A syscall of the socket state machine returns: it is recorded as the last call.
\* Every syscall action is guarded by calls < MaxCalls.
Returns(c) ==
    /\ calls' = calls + 1
    /\ last' = c
    /\ UNCHANGED files

\* The paths that the calls of the model bind Unix-domain sockets to
UserPaths == {<<"a">>, <<"dev">>}
\* The buffers that the calls of the model send
SockPayloads == {<<1>>, <<2, 3>>}
\* The flags of a recv call
RecvFlags == {"none", "MSG_PEEK"}

SetWorld(w) ==
    /\ port_table' = w.table
    /\ inodetable' = w.it
    /\ nextinode' = w.nextinode
    /\ domsock_paths' = w.paths

NoHistory == [arrived |-> <<>>, rcvd |-> <<>>]
IdleAcceptor == [pc |-> "idle", fd |-> 0, newfd |-> 0,
                 ds |-> DomsockTableEntry(UnixAddr(<<>>), 0, 0, None)]
NoThreads == [conn |-> [fd \in Fds |-> "idle"], acc |-> IdleAcceptor]

InitSock ==
    /\ fdtable = [fd \in Fds |-> NoSock]
    /\ port_table = {}
    /\ listening_port_set = {}
    /\ domsock_paths = {}
    /\ domsock_accept_table = EmptyTable
    /\ inodetable = format_fs.inodetable
    /\ nextinode = format_fs.nextinode
    /\ ud_counter = 0
    /\ pipes = <<>>
    /\ kernel_rx = [fd \in Fds |-> <<>>]
    /\ history = [fd \in Fds |-> NoHistory]
    /\ threads = NoThreads
    /\ last = NoCall
    /\ calls = 0
    /\ files = NoFiles

-----------------------------------------------------------------------------
(* The socket state machine: one action per syscall *)

\* socket_syscall for the given domains and protocols
socket_call(domains, protocols) ==
    calls < MaxCalls /\
    \E domain \in domains, protocol \in protocols, nonblocking \in BOOLEAN :
        /\ get_next_fd(fdtable) # None
        /\ fdtable' = [fdtable EXCEPT ![unwrap(get_next_fd(fdtable))] =
                          mksockhandle(domain, protocol, "NOTCONNECTED", nonblocking)]
        /\ history' = [history EXCEPT ![unwrap(get_next_fd(fdtable))] = NoHistory]
        /\ Returns(Call("socket", unwrap(get_next_fd(fdtable)), "none", "OK", 0, <<>>,
                        NoSock, mksockhandle(domain, protocol, "NOTCONNECTED", nonblocking),
                        {}))
        /\ UNCHANGED <<port_table, listening_port_set, domsock_accept_table, fsvars,
                       ud_counter, pipes, kernel_rx, threads>>

socket_syscall == socket_call({"AF_INET", "AF_UNIX"}, {"IPPROTO_TCP"})

socket_syscall_udp == socket_call({"AF_INET"}, {"IPPROTO_UDP"})

\* A call that changes one handle and the shared tables returns r
handle_call_returns(op, fd, how, r) ==
    /\ fdtable' = [fdtable EXCEPT ![fd] = r.h]
    /\ SetWorld(r.w)
    /\ Returns(Call(op, fd, how, r.err, 0, <<>>, fdtable[fd], r.h, port_table \ r.w.table))

bind_syscall ==
    calls < MaxCalls /\
    \E fd \in Fds, kbind \in {"OK", "EADDRINUSE", "EINVAL"} :
    \E localaddr \in {InetAddr(p) : p \in 0..MaxPort} \cup {UnixAddr(x) : x \in UserPaths} :
        /\ fdtable[fd].used
        /\ kbind \in KernelBindResults(force_innersocket(fdtable[fd]).innersocket)
        /\ handle_call_returns("bind", fd, "none",
                bind_inner_socket(fdtable[fd], localaddr, FALSE, World, kbind))
        /\ UNCHANGED <<listening_port_set, domsock_accept_table, ud_counter, pipes,
                       kernel_rx, history, threads>>

connect_syscall_inet ==
    calls < MaxCalls /\
    \E fd \in Fds, kbind \in {"OK", "EADDRINUSE", "EINVAL"},
       kconn \in {"OK", "EINPROGRESS", "ECONNREFUSED", "EISCONN"} :
        /\ fdtable[fd].used
        /\ fdtable[fd].domain = "AF_INET"
        /\ fdtable[fd].protocol = "IPPROTO_TCP"
        /\ kbind \in KernelBindResults(force_innersocket(fdtable[fd]).innersocket)
        /\ kconn \in KernelConnectResults(
                        IF fdtable[fd].localaddr = None THEN "bound"
                        ELSE fdtable[fd].innersocket)
        /\ kconn = "EINPROGRESS" => fdtable[fd].nonblock
        /\ handle_call_returns("connect", fd, "none",
                connect_tcp_inet(fdtable[fd], InetAddr(1), World, kbind, kconn))
        /\ UNCHANGED <<listening_port_set, domsock_accept_table, ud_counter, pipes,
                       kernel_rx, history, threads>>

listen_returns(fd, r) ==
    /\ listening_port_set' = r.listening
    /\ handle_call_returns("listen", fd, "none", r)

listen_syscall ==
    calls < MaxCalls /\
    \E fd \in Fds, kbind \in {"OK", "EADDRINUSE", "EINVAL"},
       klisten \in {"OK", "EADDRINUSE", "EINVAL"} :
        /\ fdtable[fd].used
        /\ kbind \in KernelBindResults(force_innersocket(fdtable[fd]).innersocket)
        /\ klisten \in KernelListenResults(
                        IF fdtable[fd].localaddr = None THEN "bound"
                        ELSE fdtable[fd].innersocket)
        /\ listen_returns(fd,
                listen_handle(fdtable[fd], World, listening_port_set, kbind, klisten))
        /\ UNCHANGED <<domsock_accept_table, ud_counter, pipes, kernel_rx, history, threads>>

shutdown_returns(fd, how, r) ==
    /\ fdtable' = [fdtable EXCEPT ![fd] = cleanup_socket_fd(r.h, how, r.err)]
    /\ port_table' = r.table
    /\ Returns(Call("shutdown", fd, how, r.err, 0, <<>>, fdtable[fd], r.h,
                    port_table \ r.table))

netshutdown_syscall ==
    calls < MaxCalls /\
    \E fd \in Fds, how \in Hows, kshut \in {"OK", "ENOTCONN"} :
        /\ fdtable[fd].used
        /\ kshut \in KernelShutdownResults(fdtable[fd].innersocket)
        /\ shutdown_returns(fd, how,
                cleanup_socket_inner_helper(fdtable[fd], how, TRUE, port_table, kshut))
        /\ UNCHANGED <<listening_port_set, domsock_accept_table, fsvars, ud_counter, pipes,
                       kernel_rx, history, threads>>

close_returns(fd, r) ==
    /\ fdtable' = [fdtable EXCEPT ![fd] = NoSock]
    /\ port_table' = r.table
    /\ Returns(Call("close", fd, "none", "OK", 0, <<>>, fdtable[fd], r.h,
                    port_table \ r.table))

\* close on a socket fd: the cleanup without a kernel shutdown, then the fd is freed
close_syscall ==
    calls < MaxCalls /\
    \E fd \in Fds :
        /\ fdtable[fd].used
        /\ close_returns(fd,
                cleanup_socket_inner_helper(fdtable[fd], "none", FALSE, port_table, "OK"))
        /\ UNCHANGED <<listening_port_set, domsock_accept_table, fsvars, ud_counter, pipes,
                       kernel_rx, history, threads>>

\* The fds that receive from pipe sp
receivers(fdt, sp) ==
    {fd \in Fds : /\ sp # None
                  /\ fdt[fd].used
                  /\ fdt[fd].unix_info # None
                  /\ unwrap(fdt[fd].unix_info).receivepipe = sp}

sendpipe_of(h) ==
    IF h.domain = "AF_UNIX" /\ h.unix_info # None THEN unwrap(h.unix_info).sendpipe ELSE None

Arrive(hist, fds, bytes) ==
    [fd \in Fds |-> IF fd \in fds THEN [hist[fd] EXCEPT !.arrived = @ \o bytes] ELSE hist[fd]]

send_returns(fd, buf, r) ==
    /\ fdtable[fd].nonblock \/ r.err # "EAGAIN" \/ fdtable[fd].domain # "AF_UNIX"
    /\ pipes' = r.ps
    /\ history' = Arrive(history, receivers(fdtable, sendpipe_of(fdtable[fd])),
                         SubSeq(buf, 1, r.n))
    /\ Returns(Call("send", fd, "none", r.err, r.n, buf, fdtable[fd], fdtable[fd], {}))

send_syscall ==
    calls < MaxCalls /\
    \E fd \in Fds, buf \in SockPayloads, ksend \in {"OK", "EAGAIN"} :
        /\ fdtable[fd].used
        /\ fdtable[fd].protocol = "IPPROTO_TCP"
        /\ send_returns(fd, buf, send_handle(fdtable[fd], pipes, buf, ksend))
        /\ UNCHANGED <<fdtable, port_table, listening_port_set, domsock_accept_table, fsvars,
                       ud_counter, kernel_rx, threads>>

socketpair_returns(sock1fd, sock2fd, r) ==
    /\ fdtable' = [fdtable EXCEPT ![sock1fd] = r.sock1, ![sock2fd] = r.sock2]
    /\ SetWorld(r.w)
    /\ pipes' = r.ps
    /\ history' = [history EXCEPT ![sock1fd] = NoHistory, ![sock2fd] = NoHistory]
    /\ Returns(Call("socketpair", sock1fd, "none", "OK", sock2fd, <<>>, NoSock, r.sock1, {}))

socketpair_syscall ==
    calls < MaxCalls /\
    \E nonblocking \in BOOLEAN :
        /\ Cardinality({fd \in Fds : ~fdtable[fd].used}) >= 2
        /\ ud_counter + 2 <= MaxUd
        /\ Len(pipes) + 2 <= MaxPipes
        /\ socketpair_returns(
                unwrap(get_next_fd(fdtable)),
                unwrap(get_next_fd([fdtable EXCEPT ![unwrap(get_next_fd(fdtable))].used = TRUE])),
                socketpair_handles(nonblocking, World, pipes, ud_counter))
        /\ ud_counter' = ud_counter + 2
        /\ UNCHANGED <<listening_port_set, domsock_accept_table, kernel_rx, threads>>

NextSock ==
    \/ socket_syscall
    \/ bind_syscall
    \/ connect_syscall_inet
    \/ listen_syscall
    \/ netshutdown_syscall
    \/ close_syscall
    \/ send_syscall
    \/ socketpair_syscall

SpecSock == InitSock /\ [][NextSock]_vars

-----------------------------------------------------------------------------
(* Receiving: recv on stream and datagram sockets, and the peers that send *)

\* The queue a recv on fd reads: the receive pipe of a Unix-domain socket, the
\* kernel socket of an inet one
uses_pipe(h) == h.domain = "AF_UNIX" /\ has_receive_queue(h)

rxqueue(fdt, ps, krx, fd) ==
    IF uses_pipe(fdt[fd]) THEN ps[unwrap(unwrap(fdt[fd].unix_info).receivepipe)]
    ELSE krx[fd]

recv_returns(fd, buflen, flags, r) ==
    /\ fdtable' = [fdtable EXCEPT ![fd] = r.h]
    /\ SetWorld(r.w)
    /\ IF uses_pipe(fdtable[fd])
       THEN /\ pipes' = [pipes EXCEPT
                            ![unwrap(unwrap(fdtable[fd].unix_info).receivepipe)] = r.q]
            /\ UNCHANGED kernel_rx
       ELSE /\ kernel_rx' = [kernel_rx EXCEPT ![fd] = r.q]
            /\ UNCHANGED pipes
    /\ history' = IF r.err = "OK" /\ flags # "MSG_PEEK"
                  THEN [history EXCEPT ![fd].rcvd = @ \o r.data]
                  ELSE history
    /\ Returns([Call("recv", fd, flags, r.err, Len(r.data), r.data, fdtable[fd], r.h, {})
                    EXCEPT !.len = buflen])

recv_syscall ==
    calls < MaxCalls /\
    \E fd \in Fds, buflen \in 1..MaxBuf, flags \in RecvFlags, connd \in BOOLEAN,
       kbind \in {"OK", "EADDRINUSE", "EINVAL"} :
        /\ fdtable[fd].used
        /\ connd => fdtable[fd].state = "INPROGRESS"
        /\ IF fdtable[fd].protocol = "IPPROTO_TCP" THEN kbind = "OK"
           ELSE kbind \in KernelBindResults(force_innersocket(fdtable[fd]).innersocket)
        /\ recv_returns(fd, buflen, flags,
                recv_common_inner(fdtable[fd], World, rxqueue(fdtable, pipes, kernel_rx, fd),
                                  buflen, flags, connd, kbind))
        /\ UNCHANGED <<listening_port_set, domsock_accept_table, ud_counter, threads>>

\* What has arrived from peers for the fds 1..n
RECURSIVE Arrived(_, _)
Arrived(hist, n) == IF n = 0 THEN 0 ELSE Len(hist[n].arrived) + Arrived(hist, n - 1)

\* The peer of a connected inet TCP socket sends bytes; they arrive at the kernel socket
peer_send ==
    \E fd \in Fds, buf \in SockPayloads :
        /\ fdtable[fd].used
        /\ fdtable[fd].domain = "AF_INET"
        /\ fdtable[fd].protocol = "IPPROTO_TCP"
        /\ fdtable[fd].innersocket = "connected"
        /\ Arrived(history, MaxFd) + Len(buf) <= MaxArrive
        /\ kernel_rx' = [kernel_rx EXCEPT ![fd] = @ \o buf]
        /\ history' = Arrive(history, {fd}, buf)
        /\ UNCHANGED <<fdtable, port_table, listening_port_set, domsock_accept_table, fsvars,
                       ud_counter, pipes, threads, last, calls, files>>

\* A datagram arrives at a bound UDP socket
peer_datagram ==
    \E fd \in Fds, buf \in SockPayloads :
        /\ fdtable[fd].used
        /\ fdtable[fd].protocol = "IPPROTO_UDP"
        /\ fdtable[fd].innersocket = "bound"
        /\ Arrived(history, MaxFd) < MaxArrive
        /\ kernel_rx' = [kernel_rx EXCEPT ![fd] = Append(@, buf)]
        /\ history' = Arrive(history, {fd}, <<buf>>)
        /\ UNCHANGED <<fdtable, port_table, listening_port_set, domsock_accept_table, fsvars,
                       ud_counter, pipes, threads, last, calls, files>>

NextRecv ==
    \/ socket_syscall
    \/ connect_syscall_inet
    \/ socketpair_syscall
    \/ send_syscall
    \/ recv_syscall
    \/ peer_send

SpecRecv == InitSock /\ [][NextRecv]_vars

NextUdp ==
    \/ socket_syscall_udp
    \/ bind_syscall
    \/ recv_syscall
    \/ peer_datagram

SpecUdp == InitSock /\ [][NextUdp]_vars

-----------------------------------------------------------------------------
(* The Unix-domain rendezvous between connecting threads and an accepting   *)
(* thread.  A blocking connect is inside connect_tcp_unix from the insert   *)
(* of its entry until its cond_var is signalled; accept_unix is between     *)
(* its lookup of the entry and its removal of the key.                      *)

ListenerFd == Min(Fds)
ListenerPath == <<"a">>
ClientFds == Fds \ {ListenerFd, MaxFd}
ConnectPaths == {ListenerPath, <<"b">>}

FreshWorld == [table |-> {}, it |-> format_fs.inodetable, nextinode |-> format_fs.nextinode,
               paths |-> {}]

\* The listener after socket, bind to ListenerPath and listen
listener_after_setup(nonblocking) ==
    listen_handle(
        bind_inner_socket(mksockhandle("AF_UNIX", "IPPROTO_TCP", "NOTCONNECTED", nonblocking),
                          UnixAddr(ListenerPath), FALSE, FreshWorld, "OK").h,
        FreshWorld, {}, "OK", "OK").h

world_after_setup ==
    bind_inner_socket(mksockhandle("AF_UNIX", "IPPROTO_TCP", "NOTCONNECTED", FALSE),
                      UnixAddr(ListenerPath), FALSE, FreshWorld, "OK").w

InitUnix ==
    /\ \E lnb \in BOOLEAN, cnb \in [ClientFds -> BOOLEAN] :
          fdtable = [fd \in Fds |->
                        IF fd = ListenerFd THEN listener_after_setup(lnb)
                        ELSE IF fd \in ClientFds
                        THEN mksockhandle("AF_UNIX", "IPPROTO_TCP", "NOTCONNECTED", cnb[fd])
                        ELSE NoSock]
    /\ port_table = world_after_setup.table
    /\ listening_port_set = {}
    /\ domsock_paths = world_after_setup.paths
    /\ domsock_accept_table = EmptyTable
    /\ inodetable = world_after_setup.it
    /\ nextinode = world_after_setup.nextinode
    /\ ud_counter = 0
    /\ pipes = <<>>
    /\ kernel_rx = [fd \in Fds |-> <<>>]
    /\ history = [fd \in Fds |-> NoHistory]
    /\ threads = NoThreads
    /\ last = NoCall
    /\ calls = 0
    /\ files = NoFiles

\* A call made by a thread of the rendezvous returns
Completes(c) ==
    /\ last' = c
    /\ UNCHANGED <<calls, files>>

unix_connect_returns(fd, r) ==
    /\ fdtable' = [fdtable EXCEPT ![fd] = r.h]
    /\ SetWorld(r.w)
    /\ ud_counter' = r.udc
    /\ pipes' = r.ps
    /\ domsock_accept_table' = r.table
    /\ IF r.wait
       THEN /\ threads' = [threads EXCEPT !.conn[fd] = "published"]
            /\ UNCHANGED <<last, calls, files>>
       ELSE /\ threads' = [threads EXCEPT !.conn[fd] = "returned"]
            /\ Completes(Call("connect", fd, "none", r.err, 0, <<>>, fdtable[fd], r.h, {}))

\* connect_syscall on a Unix-domain stream socket, up to the wait on the cond_var
unix_connect ==
    \E fd \in Fds, path \in ConnectPaths :
        /\ fdtable[fd].used
        /\ fdtable[fd].domain = "AF_UNIX"
        /\ fdtable[fd].state = "NOTCONNECTED"
        /\ threads.conn[fd] = "idle"
        /\ ud_counter < MaxUd
        /\ Len(pipes) + 2 <= MaxPipes
        /\ unix_connect_returns(fd,
                connect_tcp_unix(fdtable[fd], UnixAddr(path), World, domsock_accept_table,
                                 pipes, ud_counter, fd))
        /\ UNCHANGED <<listening_port_set, kernel_rx, history>>

\* ConnCondVar::wait: the connecting thread starts to wait
unix_connect_wait ==
    \E fd \in Fds :
        /\ threads.conn[fd] = "published"
        /\ threads' = [threads EXCEPT !.conn[fd] = "waiting"]
        /\ UNCHANGED <<fdtable, port_table, listening_port_set, domsock_accept_table, fsvars,
                       ud_counter, pipes, kernel_rx, history, last, calls, files>>

\* The connecting thread was signalled: connect returns 0
unix_connect_return(fd) ==
    /\ threads.conn[fd] = "woken"
    /\ threads' = [threads EXCEPT !.conn[fd] = "returned"]
    /\ Completes(Call("connect", fd, "none", "OK", 0, <<>>, fdtable[fd], fdtable[fd], {}))
    /\ UNCHANGED <<fdtable, port_table, listening_port_set, domsock_accept_table, fsvars,
                   ud_counter, pipes, kernel_rx, history>>

unix_connect_wakes == \E fd \in Fds : unix_connect_return(fd)

\* The thread a signal on the cond_var of entry ds wakes
signal(conn, ds) ==
    IF ds.cond_var = None THEN conn
    ELSE [conn EXCEPT ![unwrap(ds.cond_var)] = "woken"]

\* accept_syscall and accept_unix up to the drop of the entry: the entry under
\* the listener's path is looked up, its cond_var signalled, its fields taken
accept_lookup ==
    \E fd \in Fds :
        /\ threads.acc.pc = "idle"
        /\ fdtable[fd].used
        /\ fdtable[fd].domain = "AF_UNIX"
        /\ fdtable[fd].state = "LISTEN"
        /\ fdtable[fd].localaddr # None
        /\ get_next_fd(fdtable) # None
        /\ LET localpathbuf == normpath(unwrap(fdtable[fd].localaddr).path)
           IN  IF localpathbuf \in DOMAIN domsock_accept_table
               THEN /\ domsock_accept_table[localpathbuf].cond_var # None
                        => broadcast(threads.conn,
                                     unwrap(domsock_accept_table[localpathbuf].cond_var))
                    /\ threads' = [conn |-> signal(threads.conn,
                                                   domsock_accept_table[localpathbuf]),
                                   acc |-> [pc |-> "holding", fd |-> fd,
                                            newfd |-> unwrap(get_next_fd(fdtable)),
                                            ds |-> domsock_accept_table[localpathbuf]]]
                    /\ UNCHANGED <<last, calls, files>>
               ELSE /\ fdtable[fd].nonblock
                    /\ Completes(Call("accept", fd, "none", "EAGAIN", 0, <<>>, fdtable[fd],
                                      fdtable[fd], {}))
                    /\ UNCHANGED threads
        /\ UNCHANGED <<fdtable, port_table, listening_port_set, domsock_accept_table, fsvars,
                       ud_counter, pipes, kernel_rx, history>>

accept_installs(acc, r) ==
    /\ fdtable' = [fdtable EXCEPT ![acc.newfd] = r.h]
    /\ inodetable' = r.it
    /\ Completes(Call("accept", acc.fd, "none", "OK", acc.newfd, <<>>, fdtable[acc.fd],
                      r.h, {}))

\* accept_unix from the removal of the key on: the new socket is built and installed
accept_finish ==
    /\ threads.acc.pc = "holding"
    /\ domsock_accept_table' =
          table_remove(domsock_accept_table,
                       normpath(unwrap(fdtable[threads.acc.fd].localaddr).path))
    /\ accept_installs(threads.acc,
                       accept_unix_handle(fdtable[threads.acc.fd], threads.acc.ds, inodetable))
    /\ threads' = [threads EXCEPT !.acc = IdleAcceptor]
    /\ UNCHANGED <<port_table, listening_port_set, nextinode, domsock_paths, ud_counter,
                   pipes, kernel_rx, history>>

NextUnix ==
    \/ unix_connect
    \/ unix_connect_wait
    \/ unix_connect_wakes
    \/ accept_lookup
    \/ accept_finish

SpecUnix == InitUnix /\ [][NextUnix]_vars /\ \A fd \in Fds : WF_vars(unix_connect_return(fd))

-----------------------------------------------------------------------------
(* socket with every combination of arguments, connect on a UDP socket,     *)
(* sendto, and send on the sockets of every protocol                        *)

\* syscalls made in a run of the send state machine
MaxSendCalls == 3

SockDomains == {"AF_INET", "AF_INET6", "AF_UNIX", "AF_NETLINK"}
SockTypes == {"SOCK_STREAM", "SOCK_DGRAM", "SOCK_RAW"}
\* protocol 0 of the call is "DEFAULT"
SockProtocols == {"DEFAULT", "IPPROTO_TCP", "IPPROTO_UDP"}

\* The protocol a socket type defaults to and the only one it takes
socket_newprotocol(real_socktype, protocol) ==
    IF protocol # "DEFAULT" THEN protocol
    ELSE IF real_socktype = "SOCK_STREAM" THEN "IPPROTO_TCP" ELSE "IPPROTO_UDP"

\* The domains socket_syscall creates a socket for
socket_domain_implemented(domain) == domain = "AF_INET" \/ domain = "AF_UNIX"

\* socket_syscall up to the insertion into the fd table: the new descriptor or
\* the error
socket_descriptor(domain, real_socktype, protocol, nonblocking, cloexec) ==
    IF real_socktype \notin {"SOCK_STREAM", "SOCK_DGRAM"}
    THEN [err |-> "EOPNOTSUPP", h |-> NoSock]
    ELSE IF socket_newprotocol(real_socktype, protocol) #
               (IF real_socktype = "SOCK_STREAM" THEN "IPPROTO_TCP" ELSE "IPPROTO_UDP")
    THEN [err |-> "EOPNOTSUPP", h |-> NoSock]
    ELSE IF ~socket_domain_implemented(domain)
    THEN [err |-> "EOPNOTSUPP", h |-> NoSock]
    ELSE [err |-> "OK",
          h |-> [mksockhandle(domain, socket_newprotocol(real_socktype, protocol),
                              "NOTCONNECTED", nonblocking) EXCEPT !.cloexec = cloexec]]

\* _socket_inserter: the descriptor goes into the lowest free fd; a full table
\* gives the error of get_next_fd
socket_inserter(fdt, r) ==
    IF r.err # "OK" THEN [fdt |-> fdt, fd |-> 0, err |-> r.err]
    ELSE IF get_next_fd(fdt) = None THEN [fdt |-> fdt, fd |-> 0, err |-> "ENFILE"]
    ELSE [fdt |-> [fdt EXCEPT ![unwrap(get_next_fd(fdt))] = r.h],
          fd |-> unwrap(get_next_fd(fdt)), err |-> "OK"]

socket_any_returns(a, r, ins) ==
    /\ fdtable' = ins.fdt
    /\ history' = IF ins.err = "OK" THEN [history EXCEPT ![ins.fd] = NoHistory] ELSE history
    /\ Returns([Call("socket", ins.fd, "none", ins.err, 0, <<>>, NoSock,
                     IF ins.err = "OK" THEN r.h ELSE NoSock, {}) EXCEPT !.args = a])

\* socket_syscall with every combination of arguments
socket_syscall_any ==
    \E domain \in SockDomains, real_socktype \in SockTypes, protocol \in SockProtocols,
       nonblocking \in BOOLEAN, cloexec \in BOOLEAN :
        /\ socket_any_returns(
                [domain |-> domain, socktype |-> real_socktype, protocol |-> protocol,
                 nonblocking |-> nonblocking, cloexec |-> cloexec],
                socket_descriptor(domain, real_socktype, protocol, nonblocking, cloexec),
                socket_inserter(fdtable,
                    socket_descriptor(domain, real_socktype, protocol, nonblocking, cloexec)))
        /\ UNCHANGED <<port_table, listening_port_set, domsock_accept_table, fsvars,
                       ud_counter, pipes, kernel_rx, threads>>

\* connect_udp: the remote address is recorded, an unbound socket is bound to an
\* ephemeral port
connect_udp(h, remoteaddr, w, kbind) ==
    implicit_bind([h EXCEPT !.remoteaddr = Some(remoteaddr)], h.domain, w, kbind)

\* connect_syscall on an inet UDP socket
connect_syscall_udp ==
    \E fd \in Fds, kbind \in {"OK", "EADDRINUSE", "EINVAL"} :
        /\ fdtable[fd].used
        /\ fdtable[fd].domain = "AF_INET"
        /\ fdtable[fd].protocol = "IPPROTO_UDP"
        /\ kbind \in KernelBindResults(force_innersocket(fdtable[fd]).innersocket)
        /\ handle_call_returns("connect", fd, "none",
                connect_udp(fdtable[fd], InetAddr(1), World, kbind))
        /\ UNCHANGED <<listening_port_set, domsock_accept_table, ud_counter, pipes,
                       kernel_rx, history, threads>>

\* The flags of a send call; only MSG_NOSIGNAL is understood
SendFlags == {"none", "MSG_NOSIGNAL", "MSG_OOB"}
flags_understood(flags) == flags \in {"none", "MSG_NOSIGNAL"}

\* A destination of sendto: its family, its port and whether its address is the
\* unspecified address
DestAddr(family, port, unspecified) ==
    [family |-> family, port |-> port, unspecified |-> unspecified]
DestAddrs ==
    {DestAddr("AF_INET", 0, TRUE), DestAddr("AF_INET", 0, FALSE), DestAddr("AF_INET", 1, TRUE),
     DestAddr("AF_INET", 1, FALSE), DestAddr("AF_UNIX", 0, TRUE), DestAddr("AF_UNIX", 0, FALSE)}

\* A sendto that never hands the call to send
sendto_never_shunts(dest_addr) == FALSE

\* Whether sendto hands the call to send: neither ip nor port is specified
sendto_shunts(dest_addr) == dest_addr.port = 0 /\ dest_addr.unspecified

\* sendto_syscall for a destination that is specified; ksend is the answer of the
\* kernel's sendto
sendto_specified(h, w, ps, buf, flags, family, kbind, ksend) ==
    IF h.domain = "AF_UNIX" THEN [h |-> h, w |-> w, ps |-> ps, err |-> "EISCONN", n |-> 0]
    ELSE IF family # h.domain THEN [h |-> h, w |-> w, ps |-> ps, err |-> "EINVAL", n |-> 0]
    ELSE IF ~flags_understood(flags)
         THEN [h |-> h, w |-> w, ps |-> ps, err |-> "EOPNOTSUPP", n |-> 0]
    ELSE IF h.state # "NOTCONNECTED"
         THEN [h |-> h, w |-> w, ps |-> ps, err |-> "EISCONN", n |-> 0]
    ELSE IF h.protocol = "IPPROTO_TCP"
         THEN [h |-> h, w |-> w, ps |-> ps, err |-> "EISCONN", n |-> 0]
    ELSE IF h.protocol # "IPPROTO_UDP"
         THEN [h |-> h, w |-> w, ps |-> ps, err |-> "EOPNOTSUPP", n |-> 0]
    ELSE [ps |-> ps,
          n |-> IF implicit_bind(h, family, w, kbind).err = "OK" /\ ksend = "OK"
                THEN Len(buf) ELSE 0,
          err |-> IF implicit_bind(h, family, w, kbind).err # "OK"
                  THEN implicit_bind(h, family, w, kbind).err ELSE ksend,
          h |-> implicit_bind(h, family, w, kbind).h,
          w |-> implicit_bind(h, family, w, kbind).w]

\* send_syscall on a socket of any domain and protocol.  A UDP socket with a
\* recorded remote address hands the call to sendto with that address (the remote
\* addresses of the model are specified ones).
send_any(h, w, ps, buf, flags, kbind, ksend) ==
    IF ~flags_understood(flags)
    THEN [h |-> h, w |-> w, ps |-> ps, err |-> "EOPNOTSUPP", n |-> 0]
    ELSE IF h.domain = "AF_UNIX" THEN
        IF h.protocol = "IPPROTO_TCP" THEN [h |-> h, w |-> w] @@ send_handle(h, ps, buf, ksend)
        ELSE [h |-> h, w |-> w, ps |-> ps, err |-> "EOPNOTSUPP", n |-> 0]
    ELSE IF h.domain \in {"AF_INET", "AF_INET6"} THEN
        IF h.protocol = "IPPROTO_TCP" THEN [h |-> h, w |-> w] @@ send_handle(h, ps, buf, ksend)
        ELSE IF h.protocol = "IPPROTO_UDP" THEN
            IF h.remoteaddr = None
            THEN [h |-> h, w |-> w, ps |-> ps, err |-> "ENOTCONN", n |-> 0]
            ELSE sendto_specified(h, w, ps, buf, flags, unwrap(h.remoteaddr).family,
                                  kbind, ksend)
        ELSE [h |-> h, w |-> w, ps |-> ps, err |-> "EOPNOTSUPP", n |-> 0]
    ELSE [h |-> h, w |-> w, ps |-> ps, err |-> "EINVAL", n |-> 0]

\* sendto_syscall
sendto_handle(h, w, ps, buf, flags, dest_addr, kbind, ksend) ==
    IF sendto_shunts(dest_addr) THEN send_any(h, w, ps, buf, flags, kbind, ksend)
    ELSE sendto_specified(h, w, ps, buf, flags, dest_addr.family, kbind, ksend)

\* The answers of the kernel that a send on handle h can meet
KernelSendInputs(h, kbind, ksend) ==
    IF h.domain = "AF_UNIX" THEN kbind = "OK" /\ ksend = "OK"
    ELSE /\ kbind \in KernelBindResults(force_innersocket(h).innersocket)
         /\ (h.localaddr # None \/ h.protocol = "IPPROTO_TCP") => kbind = "OK"

send_any_returns(op, fd, buf, flags, a, r) ==
    /\ fdtable[fd].nonblock \/ r.err # "EAGAIN" \/ fdtable[fd].domain # "AF_UNIX"
    /\ fdtable' = [fdtable EXCEPT ![fd] = r.h]
    /\ SetWorld(r.w)
    /\ pipes' = r.ps
    /\ history' = Arrive(history, receivers(fdtable, sendpipe_of(fdtable[fd])),
                         SubSeq(buf, 1, r.n))
    /\ Returns([Call(op, fd, flags, r.err, r.n, buf, fdtable[fd], r.h, {})
                    EXCEPT !.args = a])

sendto_syscall ==
    \E fd \in Fds, buf \in SockPayloads, flags \in SendFlags, dest_addr \in DestAddrs,
       kbind \in {"OK", "EADDRINUSE", "EINVAL"}, ksend \in {"OK", "EAGAIN"} :
        /\ fdtable[fd].used
        /\ KernelSendInputs(fdtable[fd], kbind, ksend)
        /\ send_any_returns("sendto", fd, buf, flags, dest_addr,
                sendto_handle(fdtable[fd], World, pipes, buf, flags, dest_addr, kbind, ksend))
        /\ UNCHANGED <<listening_port_set, domsock_accept_table, ud_counter, kernel_rx,
                       threads>>

\* send_syscall on a socket of any domain and protocol
send_syscall_any ==
    \E fd \in Fds, buf \in SockPayloads, flags \in SendFlags,
       kbind \in {"OK", "EADDRINUSE", "EINVAL"}, ksend \in {"OK", "EAGAIN"} :
        /\ fdtable[fd].used
        /\ KernelSendInputs(fdtable[fd], kbind, ksend)
        /\ send_any_returns("send", fd, buf, flags, <<>>,
                send_any(fdtable[fd], World, pipes, buf, flags, kbind, ksend))
        /\ UNCHANGED <<listening_port_set, domsock_accept_table, ud_counter, kernel_rx,
                       threads>>

NextSend ==
    \/ (calls < MaxSendCalls /\ socket_syscall_any)
    \/ (calls < MaxSendCalls /\ connect_syscall_inet)
    \/ (calls < MaxSendCalls /\ connect_syscall_udp)
    \/ (calls < MaxSendCalls /\ socketpair_syscall)
    \/ (calls < MaxSendCalls /\ sendto_syscall)
    \/ (calls < MaxSendCalls /\ send_syscall_any)

SpecSend == InitSock /\ [][NextSend]_vars

-----------------------------------------------------------------------------
(* Unix-domain sockets in the filesystem metadata: bind to paths of every   *)
(* kind, the implicit binds of connect and socketpair, remove_domain_sock   *)

\* syscalls made in a run of the Unix-domain bind state machine
MaxFsCalls == 4

\* The paths of bind calls: free names, names in use, names below a character
\* device and below a missing directory, a path to normalize, the empty path
BindPaths ==
    {<<"a">>, <<"dev">>, <<"dev", "s">>, <<"dev", "null">>, <<"dev", "null", "x">>,
     <<"nodir", "x">>, <<"dev", "..", "a">>, <<>>}

socket_syscall_unix == socket_call({"AF_UNIX"}, {"IPPROTO_TCP"})

bind_unix_returns(fd, localaddr, r) ==
    /\ fdtable' = [fdtable EXCEPT ![fd] = r.h]
    /\ SetWorld(r.w)
    /\ Returns([Call("bind", fd, "none", r.err, 0, <<>>, fdtable[fd], r.h, {})
                    EXCEPT !.args = localaddr])

\* bind_syscall on a Unix-domain socket
bind_syscall_unix ==
    \E fd \in Fds, path \in BindPaths :
        /\ fdtable[fd].used
        /\ fdtable[fd].domain = "AF_UNIX"
        /\ bind_unix_returns(fd, UnixAddr(path),
                bind_inner_socket(fdtable[fd], UnixAddr(path), FALSE, World, "OK"))
        /\ UNCHANGED <<listening_port_set, domsock_accept_table, ud_counter, pipes,
                       kernel_rx, history, threads>>

\* remove_from_parent_dir: the name leaves the directory, whose linkcount drops
remove_from_parent_dir(it, parentinodenum, truepath) ==
    [it EXCEPT ![parentinodenum].dict =
                    [n \in DOMAIN @ \ {truepath[Len(truepath)]} |-> @[n]],
               ![parentinodenum].linkcount = @ - 1]

\* A remove_domain_sock that leaves the path registered in domsock_paths
remove_domain_sock_keeps_path(w, truepath, mw) ==
    IF mw.inode = None \/ mw.parent = None THEN [w |-> w, err |-> "PANIC"]
    ELSE [w |-> [w EXCEPT
                    !.it = [n \in DOMAIN w.it \ {unwrap(mw.inode)} |->
                               remove_from_parent_dir(w.it, unwrap(mw.parent), truepath)[n]]],
          err |-> "OK"]

\* remove_domain_sock: panics when the path does not resolve or is the root
remove_domain_sock_world(w, truepath, mw) ==
    IF mw.inode = None \/ mw.parent = None THEN [w |-> w, err |-> "PANIC"]
    ELSE [w |-> [w EXCEPT
                    !.it = [n \in DOMAIN w.it \ {unwrap(mw.inode)} |->
                               remove_from_parent_dir(w.it, unwrap(mw.parent), truepath)[n]],
                    !.paths = @ \ {truepath}],
          err |-> "OK"]

remove_domain_sock_returns(truepath, r) ==
    /\ SetWorld(r.w)
    /\ Returns([Call("remove_domain_sock", 0, "none", r.err, 0, <<>>, NoSock, NoSock, {})
                    EXCEPT !.args = truepath])

\* remove_domain_sock on the path of a bound Unix-domain socket
remove_domain_sock ==
    \E truepath \in domsock_paths :
        /\ remove_domain_sock_returns(truepath,
                remove_domain_sock_world(World, truepath,
                                         metawalkandparent(inodetable, truepath)))
        /\ UNCHANGED <<fdtable, listening_port_set, domsock_accept_table, ud_counter, pipes,
                       kernel_rx, history, threads>>

NextFs ==
    \/ (calls < MaxFsCalls /\ socket_syscall_unix)
    \/ (calls < MaxFsCalls /\ bind_syscall_unix)
    \/ (calls < MaxFsCalls /\ socketpair_syscall)
    \/ (calls < MaxFsCalls /\ unix_connect)
    \/ (calls < MaxFsCalls /\ remove_domain_sock)

SpecFs == InitSock /\ [][NextFs]_vars

-----------------------------------------------------------------------------
(* epoll: the Epoll descriptors of the fd table, epoll_create and epoll_ctl *)

\* syscalls made in a run of the epoll state machine
MaxEpollCalls == 4

\* Epoll(EpollDesc): the descriptor of an epoll instance; registered_fds maps a
\* registered fd to the events of its EpollEvent
EpollDesc(registered_fds) == [used |-> TRUE, registered_fds |-> registered_fds]

\* if let Epoll(..) = filedesc_enum
is_epoll(d) == "registered_fds" \in DOMAIN d

EpollOps == {"EPOLL_CTL_ADD", "EPOLL_CTL_MOD", "EPOLL_CTL_DEL", "EPOLL_CTL_OTHER"}
EpollEvents == {"EPOLLIN", "EPOLLOUT"}
EpollSizes == {0, 1}

\* registered_fds.insert and registered_fds.remove
registered_insert(m, fd, events) ==
    [k \in DOMAIN m \cup {fd} |-> IF k = fd THEN events ELSE m[k]]
registered_remove(m, fd) == [k \in DOMAIN m \ {fd} |-> m[k]]

\* _epoll_object_allocator: an empty epoll instance in the lowest free fd
epoll_object_allocator(fdt) ==
    IF get_next_fd(fdt) = None THEN [fdt |-> fdt, fd |-> 0, err |-> "ENFILE"]
    ELSE [fdt |-> [fdt EXCEPT ![unwrap(get_next_fd(fdt))] = EpollDesc(<<>>)],
          fd |-> unwrap(get_next_fd(fdt)), err |-> "OK"]

\* epoll_create_syscall
epoll_create(fdt, size) ==
    IF size <= 0 THEN [fdt |-> fdt, fd |-> 0, err |-> "EINVAL"]
    ELSE epoll_object_allocator(fdt)

\* The match on op in epoll_ctl_syscall, on the registered fds of the instance.
\* EPOLL_CTL_DEL unwraps what remove returns: None for an fd that is not
\* registered, and the process panics.
epoll_ctl_op(registered_fds, op, fd, events) ==
    IF op = "EPOLL_CTL_DEL"
    THEN IF fd \in DOMAIN registered_fds
         THEN [reg |-> registered_remove(registered_fds, fd), err |-> "OK"]
         ELSE [reg |-> registered_fds, err |-> "PANIC"]
    ELSE IF op = "EPOLL_CTL_MOD"
    THEN IF fd \notin DOMAIN registered_fds
         THEN [reg |-> registered_fds, err |-> "ENOENT"]
         ELSE [reg |-> registered_insert(registered_fds, fd, events), err |-> "OK"]
    ELSE IF op = "EPOLL_CTL_ADD"
    THEN IF fd \in DOMAIN registered_fds
         THEN [reg |-> registered_fds, err |-> "EEXIST"]
         ELSE [reg |-> registered_insert(registered_fds, fd, events), err |-> "OK"]
    ELSE [reg |-> registered_fds, err |-> "EINVAL"]

\* epoll_ctl_syscall: epfd must hold an epoll instance, fd an open descriptor
\* that is not one
epoll_ctl(fdt, epfd, op, fd, events) ==
    IF ~fdt[epfd].used THEN [d |-> fdt[epfd], err |-> "EBADF"]
    ELSE IF ~is_epoll(fdt[epfd]) THEN [d |-> fdt[epfd], err |-> "EBADF"]
    ELSE IF ~fdt[fd].used \/ is_epoll(fdt[fd]) THEN [d |-> fdt[epfd], err |-> "EBADF"]
    ELSE [d |-> EpollDesc(epoll_ctl_op(fdt[epfd].registered_fds, op, fd, events).reg),
          err |-> epoll_ctl_op(fdt[epfd].registered_fds, op, fd, events).err]

epoll_create_returns(size, r) ==
    /\ fdtable' = r.fdt
    /\ Returns([Call("epoll_create", r.fd, "none", r.err, 0, <<>>, NoSock, NoSock, {})
                    EXCEPT !.args = size])

epoll_create_syscall ==
    \E size \in EpollSizes :
        /\ epoll_create_returns(size, epoll_create(fdtable, size))
        /\ UNCHANGED <<port_table, listening_port_set, domsock_accept_table, fsvars,
                       ud_counter, pipes, kernel_rx, history, threads>>

epoll_ctl_returns(epfd, op, fd, r) ==
    /\ fdtable' = [fdtable EXCEPT ![epfd] = r.d]
    /\ Returns([Call("epoll_ctl", epfd, op, r.err, 0, <<>>, fdtable[epfd], r.d, {})
                    EXCEPT !.args = fd])

\* epoll_ctl_syscall on every pair of distinct fds.  With fd = epfd the call
\* asks for the read guard of the descriptor whose write guard it holds and
\* does not return.
epoll_ctl_syscall ==
    \E epfd \in Fds, op \in EpollOps, fd \in Fds, events \in EpollEvents :
        /\ fd # epfd
        /\ epoll_ctl_returns(epfd, op, fd, epoll_ctl(fdtable, epfd, op, fd, events))
        /\ UNCHANGED <<port_table, listening_port_set, domsock_accept_table, fsvars,
                       ud_counter, pipes, kernel_rx, history, threads>>

NextEpoll ==
    \/ (calls < MaxEpollCalls /\ socket_syscall)
    \/ (calls < MaxEpollCalls /\ epoll_create_syscall)
    \/ (calls < MaxEpollCalls /\ epoll_ctl_syscall)

SpecEpoll == InitSock /\ [][NextEpoll]_vars

-----------------------------------------------------------------------------
(* select on a write set: select_writefds, the guards it takes on the lock  *)
(* of a socket handle, and a connect that another thread makes on the fd    *)

\* syscalls made in a run of the select state machine
MaxSelectCalls == 4

\* The threads of the cage that make the calls
SelThreads == {"t1", "t2"}

\* A thread in user code, and a thread inside the call op on fd that is parked
\* in sock_tmp.write(); a thread parked there by select_writefds still holds the
\* read guard sockhandle that it took on the same lock
InUser == [pc |-> "user", op |-> "none", fd |-> 0]
WantsWrite(op, fd) == [pc |-> "write", op |-> op, fd |-> fd]

\* RustLock, the reader-writer lock of a handle.  A thread that asks for the
\* write guard closes the lock to new readers and gets the guard once no read
\* guard is outstanding.
read_guards(ths, fd) ==
    {t \in DOMAIN ths : ths[t].pc = "write" /\ ths[t].op = "select" /\ ths[t].fd = fd}
writers_parked(ths, fd) == {t \in DOMAIN ths : ths[t].pc = "write" /\ ths[t].fd = fd}
read_granted(ths, fd) == writers_parked(ths, fd) = {}
write_granted(ths, fd) == read_guards(ths, fd) = {}

\* select_writefds finds a connection that completed on an INPROGRESS handle;
\* connd is the answer of check_rawconnection
select_newconnection(h, table, connd) ==
    IF h.domain = "AF_UNIX"
    THEN h.state = "INPROGRESS"
         /\ normpath(unwrap(h.remoteaddr).path) \notin DOMAIN table
    ELSE h.state = "INPROGRESS" /\ connd

\* select_writefds under the write guard: the handle becomes CONNECTED
select_set_connected(h) == [h EXCEPT !.state = "CONNECTED"]

InitSelect ==
    /\ fdtable = [fd \in Fds |-> NoSock]
    /\ port_table = {}
    /\ listening_port_set = {}
    /\ domsock_paths = {}
    /\ domsock_accept_table = EmptyTable
    /\ inodetable = format_fs.inodetable
    /\ nextinode = format_fs.nextinode
    /\ ud_counter = 0
    /\ pipes = <<>>
    /\ kernel_rx = [fd \in Fds |-> <<>>]
    /\ history = [fd \in Fds |-> NoHistory]
    /\ threads = [t \in SelThreads |-> InUser]
    /\ last = NoCall
    /\ calls = 0
    /\ files = NoFiles

\* select_syscall with fd alone in the write set returns retval and the set
select_returns(t, fd, err, retval, h) ==
    /\ fdtable' = [fdtable EXCEPT ![fd] = h]
    /\ threads' = [threads EXCEPT ![t] = InUser]
    /\ Returns(Call("select", fd, "writefds", err, retval, <<>>, fdtable[fd], h, {}))

\* select_syscall with fd alone in the write set, up to the request for the
\* write guard: an empty fd gives EBADF, a socket is reported writable, and a
\* handle with a new connection is to be set CONNECTED under the write guard
select_syscall_writefds ==
    \E t \in SelThreads, fd \in Fds, connd \in BOOLEAN :
        /\ threads[t].pc = "user"
        /\ connd => (fdtable[fd].used /\ fdtable[fd].state = "INPROGRESS")
        /\ IF ~fdtable[fd].used
           THEN select_returns(t, fd, "EBADF", 0, fdtable[fd])
           ELSE /\ read_granted(threads, fd)
                /\ IF select_newconnection(fdtable[fd], domsock_accept_table, connd)
                   THEN /\ threads' = [threads EXCEPT ![t] = WantsWrite("select", fd)]
                        /\ UNCHANGED <<fdtable, last, calls, files>>
                   ELSE select_returns(t, fd, "OK", 1, fdtable[fd])
        /\ UNCHANGED <<port_table, listening_port_set, domsock_accept_table, fsvars,
                       ud_counter, pipes, kernel_rx, history>>

\* connect_syscall on an inet TCP socket, up to the request for the write guard
connect_syscall_enters ==
    \E t \in SelThreads, fd \in Fds :
        /\ threads[t].pc = "user"
        /\ fdtable[fd].used
        /\ fdtable[fd].domain = "AF_INET"
        /\ fdtable[fd].protocol = "IPPROTO_TCP"
        /\ threads' = [threads EXCEPT ![t] = WantsWrite("connect", fd)]
        /\ UNCHANGED <<fdtable, port_table, listening_port_set, domsock_accept_table,
                       fsvars, ud_counter, pipes, kernel_rx, history, last, calls, files>>

\* The rest of the call of thread t once it has the write guard
locked_section_returns(t, r) ==
    /\ threads' = [threads EXCEPT ![t] = InUser]
    /\ IF threads[t].op = "connect"
       THEN handle_call_returns("connect", threads[t].fd, "none", r)
       ELSE /\ fdtable' = [fdtable EXCEPT ![threads[t].fd] =
                              select_set_connected(fdtable[threads[t].fd])]
            /\ Returns(Call("select", threads[t].fd, "writefds", "OK", 1, <<>>,
                            fdtable[threads[t].fd],
                            select_set_connected(fdtable[threads[t].fd]), {}))
            /\ UNCHANGED <<port_table, fsvars>>

\* sock_tmp.write() returns in thread t: the call runs to its end under the guard
write_guard_granted(t) ==
    \E kbind \in {"OK", "EADDRINUSE", "EINVAL"},
       kconn \in {"OK", "EINPROGRESS", "ECONNREFUSED", "EISCONN"} :
        /\ threads[t].pc = "write"
        /\ write_granted(threads, threads[t].fd)
        /\ kbind \in KernelBindResults(force_innersocket(fdtable[threads[t].fd]).innersocket)
        /\ kconn \in KernelConnectResults(
                        IF fdtable[threads[t].fd].localaddr = None THEN "bound"
                        ELSE fdtable[threads[t].fd].innersocket)
        /\ kconn = "EINPROGRESS" => fdtable[threads[t].fd].nonblock
        /\ locked_section_returns(t,
                connect_tcp_inet(fdtable[threads[t].fd], InetAddr(1), World, kbind, kconn))
        /\ UNCHANGED <<listening_port_set, domsock_accept_table, ud_counter, pipes,
                       kernel_rx, history>>

write_guard_grants == \E t \in SelThreads : write_guard_granted(t)

\* socket_syscall of a thread in user code
socket_syscall_select ==
    /\ \E t \in SelThreads : threads[t].pc = "user"
    /\ socket_syscall

NextSelect ==
    \/ (calls < MaxSelectCalls /\ socket_syscall_select)
    \/ (calls < MaxSelectCalls /\ connect_syscall_enters)
    \/ (calls < MaxSelectCalls /\ select_syscall_writefds)
    \/ write_guard_grants

\* A thread that can get the write guard gets it
SpecSelect ==
    InitSelect /\ [][NextSelect]_vars /\ \A t \in SelThreads : WF_vars(write_guard_granted(t))

-----------------------------------------------------------------------------
(* Blocking calls and the cancel flag of the cage: the wait loops of recv,  *)
(* accept, select and poll on a socket that has nothing to deliver          *)

\* syscalls that set up the sockets in a run of the blocking calls
MaxCancelCalls == 3
\* the passes of a wait loop that are told apart
MaxTicks == 2

\* The calls that wait; epoll_wait_syscall waits inside poll_syscall
BlockingOps == {"recv", "accept", "select", "poll"}
\* The timeout of select and poll: None, or whole ticks
Timeouts == {None, Some(1)}

\* The thread that makes the blocking calls: in user code, inside the wait loop
\* of op on fd after elapsed passes, or in loop { cancelpoint(cageid) }; pass
\* tells a pass of the loop from the next one
InUserCode ==
    [pc |-> "user", op |-> "none", fd |-> 0, end_time |-> None, elapsed |-> 0, pass |-> 0]
InWaitLoop(op, fd, end_time) ==
    [pc |-> "loop", op |-> op, fd |-> fd, end_time |-> end_time, elapsed |-> 0, pass |-> 0]

\* The handler of op on the blocking socket h gets as far as its wait loop
reaches_wait_loop(op, h, fdt) ==
    IF op = "recv"
    THEN /\ h.protocol = "IPPROTO_TCP"
         /\ h.state \in {"CONNECTED", "CONNRDONLY"}
         /\ has_receive_queue(h)
         /\ ~h.nonblock
    ELSE IF op = "accept"
    THEN /\ h.protocol = "IPPROTO_TCP"
         /\ h.state = "LISTEN"
         /\ h.localaddr # None
         /\ get_next_fd(fdt) # None
         /\ ~h.nonblock
    ELSE /\ h.domain = "AF_UNIX" /\ h.state = "LISTEN" => h.localaddr # None
         /\ h.domain = "AF_UNIX" /\ h.state = "CONNECTED" => has_receive_queue(h)

\* select_readfds on one socket: a Unix-domain listener with an entry in the
\* accept table, a connected Unix-domain socket with bytes in its receive pipe,
\* an inet socket with a kernel socket that has received
select_readable(h, q, table) ==
    IF h.domain = "AF_UNIX"
    THEN IF h.state = "LISTEN" THEN normpath(unwrap(h.localaddr).path) \in DOMAIN table
         ELSE IF h.state = "CONNECTED" THEN q # <<>>
         ELSE FALSE
    ELSE h.innersocket # "none" /\ q # <<>>

\* The call has nothing to hand to its caller on this pass
nothing_to_deliver(op, h, q, table) ==
    IF op = "recv" THEN h.last_peek = <<>> /\ q = <<>>
    ELSE IF op = "accept"
    THEN h.domain = "AF_UNIX" => normpath(unwrap(h.localaddr).path) \notin DOMAIN table
    ELSE ~select_readable(h, q, table)

\* readtimer(start_time) > end_time after elapsed whole ticks and a fraction
timer_exceeds(elapsed, end_time) == end_time # None /\ elapsed >= unwrap(end_time)

\* The wait loops that check the cancel flag after a pass that gave EAGAIN:
\* recv on both domains and accept_inet; accept_unix looks up the accept table
\* again, select_syscall and poll_syscall look at the timer and the signal flag
wait_loop_checks_cancel(op, domain) ==
    op = "recv" \/ (op = "accept" /\ domain # "AF_UNIX")

\* One pass of the wait loop of op with nothing to deliver; sigcheck is the
\* answer of interface::sigcheck()
wait_loop_pass(op, domain, end_time, elapsed, cancelstatus, sigcheck) ==
    IF op \in {"recv", "accept"}
    THEN IF wait_loop_checks_cancel(op, domain) /\ cancelstatus
         THEN [next |-> "cancelpoint", err |-> "OK"]
         ELSE [next |-> "loop", err |-> "OK"]
    ELSE IF timer_exceeds(elapsed, end_time) THEN [next |-> "user", err |-> "OK"]
    ELSE IF sigcheck THEN [next |-> "user", err |-> "EINTR"]
    ELSE [next |-> "loop", err |-> "OK"]

InitCancel ==
    /\ fdtable = [fd \in Fds |-> NoSock]
    /\ port_table = {}
    /\ listening_port_set = {}
    /\ domsock_paths = {}
    /\ domsock_accept_table = EmptyTable
    /\ inodetable = format_fs.inodetable
    /\ nextinode = format_fs.nextinode
    /\ ud_counter = 0
    /\ pipes = <<>>
    /\ kernel_rx = [fd \in Fds |-> <<>>]
    /\ history = [fd \in Fds |-> NoHistory]
    /\ threads = [cancelstatus |-> FALSE, blk |-> InUserCode]
    /\ last = NoCall
    /\ calls = 0
    /\ files = NoFiles

\* The thread calls op on a blocking socket and gets to the wait loop
blocking_call_enters ==
    \E op \in BlockingOps, fd \in Fds, end_time \in Timeouts :
        /\ threads.blk.pc = "user"
        /\ fdtable[fd].used
        /\ reaches_wait_loop(op, fdtable[fd], fdtable)
        /\ op \in {"recv", "accept"} => end_time = None
        /\ threads' = [threads EXCEPT !.blk = InWaitLoop(op, fd, end_time)]
        /\ UNCHANGED <<fdtable, port_table, listening_port_set, domsock_accept_table,
                       fsvars, ud_counter, pipes, kernel_rx, history, last, calls, files>>

\* The wait loop of the call was passed once: the thread goes round again, parks
\* at the cancel point, or returns r.err to user code
wait_loop_passed(b, r) ==
    IF r.next = "user"
    THEN /\ threads' = [threads EXCEPT !.blk = InUserCode]
         /\ Completes(Call(b.op, b.fd, "blocking", r.err, 0, <<>>, fdtable[b.fd],
                           fdtable[b.fd], {}))
    ELSE /\ threads' = [threads EXCEPT !.blk.pc = r.next,
                                       !.blk.elapsed = Min2(@ + 1, MaxTicks),
                                       !.blk.pass = 1 - @]
         /\ UNCHANGED <<last, calls, files>>

\* One pass of the wait loop the thread is in, with nothing to deliver
blocking_call_passes ==
    \E sigcheck \in BOOLEAN :
        /\ threads.blk.pc = "loop"
        /\ nothing_to_deliver(threads.blk.op, fdtable[threads.blk.fd],
                              rxqueue(fdtable, pipes, kernel_rx, threads.blk.fd),
                              domsock_accept_table)
        /\ wait_loop_passed(threads.blk,
                wait_loop_pass(threads.blk.op, fdtable[threads.blk.fd].domain,
                               threads.blk.end_time, threads.blk.elapsed,
                               threads.cancelstatus, sigcheck))
        /\ UNCHANGED <<fdtable, port_table, listening_port_set, domsock_accept_table,
                       fsvars, ud_counter, pipes, kernel_rx, history>>

\* The cancel flag of the cage is set
cage_cancel ==
    /\ ~threads.cancelstatus
    /\ threads' = [threads EXCEPT !.cancelstatus = TRUE]
    /\ UNCHANGED <<fdtable, port_table, listening_port_set, domsock_accept_table,
                   fsvars, ud_counter, pipes, kernel_rx, history, last, calls, files>>

\* The thread sets up sockets while it is in user code
in_user_code == threads.blk.pc = "user"

NextCancel ==
    \/ (calls < MaxCancelCalls /\ in_user_code /\ socket_syscall)
    \/ (calls < MaxCancelCalls /\ in_user_code /\ bind_syscall)
    \/ (calls < MaxCancelCalls /\ in_user_code /\ listen_syscall)
    \/ (calls < MaxCancelCalls /\ in_user_code /\ socketpair_syscall)
    \/ (calls < MaxCancelCalls /\ in_user_code /\ connect_syscall_inet)
    \/ blocking_call_enters
    \/ blocking_call_passes
    \/ cage_cancel

\* The thread inside a wait loop keeps running
SpecCancel == InitCancel /\ [][NextCancel]_vars /\ WF_vars(blocking_call_passes)

-----------------------------------------------------------------------------
(* epoll_ctl and the locks of the descriptors: the call holds the write     *)
(* guard of epfd while it asks for the read guard of fd                     *)

\* syscalls made in a run of epoll_ctl with its locks
MaxEpollLockCalls == 3

\* The threads of the cage that call epoll_ctl
EpThreads == {"t1", "t2"}

\* A thread outside epoll_ctl, and a thread inside it that holds the write guard
\* of the descriptor of epfd and is parked in get_filedescriptor(fd).read()
OutsideEpollCtl == [pc |-> "user", epfd |-> 0, op |-> "none", fd |-> 0, events |-> "none"]
InsideEpollCtl(epfd, op, fd, events) ==
    [pc |-> "read", epfd |-> epfd, op |-> op, fd |-> fd, events |-> events]

\* RustLock, the reader-writer lock of a descriptor: the write guards that the
\* threads inside epoll_ctl hold, and what a request for a guard waits for
fd_write_guards(ths, fd) == {t \in DOMAIN ths : ths[t].pc = "read" /\ ths[t].epfd = fd}
fd_write_granted(ths, fd) == fd_write_guards(ths, fd) = {}
fd_read_granted(ths, fd) == fd_write_guards(ths, fd) = {}

InitEpollLock ==
    /\ fdtable = [fd \in Fds |-> NoSock]
    /\ port_table = {}
    /\ listening_port_set = {}
    /\ domsock_paths = {}
    /\ domsock_accept_table = EmptyTable
    /\ inodetable = format_fs.inodetable
    /\ nextinode = format_fs.nextinode
    /\ ud_counter = 0
    /\ pipes = <<>>
    /\ kernel_rx = [fd \in Fds |-> <<>>]
    /\ history = [fd \in Fds |-> NoHistory]
    /\ threads = [t \in EpThreads |-> OutsideEpollCtl]
    /\ last = NoCall
    /\ calls = 0
    /\ files = NoFiles

\* epoll_ctl_syscall up to the read of the descriptor of fd: the thread has the
\* write guard of the descriptor of epfd; when epfd is empty or no epoll
\* instance the call returns EBADF at once
epoll_ctl_enters ==
    \E t \in EpThreads, epfd \in Fds, op \in EpollOps, fd \in Fds, events \in EpollEvents :
        /\ threads[t].pc = "user"
        /\ fd_write_granted(threads, epfd)
        /\ IF fdtable[epfd].used /\ is_epoll(fdtable[epfd])
           THEN /\ threads' = [threads EXCEPT ![t] = InsideEpollCtl(epfd, op, fd, events)]
                /\ UNCHANGED <<fdtable, last, calls, files>>
           ELSE /\ epoll_ctl_returns(epfd, op, fd, [d |-> fdtable[epfd], err |-> "EBADF"])
                /\ UNCHANGED threads
        /\ UNCHANGED <<port_table, listening_port_set, domsock_accept_table, fsvars,
                       ud_counter, pipes, kernel_rx, history>>

\* get_filedescriptor(fd).read() returns in thread t: the call runs to its end
epoll_ctl_proceeds(t) ==
    /\ threads[t].pc = "read"
    /\ fd_read_granted(threads, threads[t].fd)
    /\ epoll_ctl_returns(threads[t].epfd, threads[t].op, threads[t].fd,
                         epoll_ctl(fdtable, threads[t].epfd, threads[t].op, threads[t].fd,
                                   threads[t].events))
    /\ threads' = [threads EXCEPT ![t] = OutsideEpollCtl]
    /\ UNCHANGED <<port_table, listening_port_set, domsock_accept_table, fsvars,
                   ud_counter, pipes, kernel_rx, history>>

epoll_ctl_runs == \E t \in EpThreads : epoll_ctl_proceeds(t)

NextEpollLock ==
    \/ (calls < MaxEpollLockCalls /\ socket_syscall)
    \/ (calls < MaxEpollLockCalls /\ epoll_create_syscall)
    \/ (calls < MaxEpollLockCalls /\ epoll_ctl_enters)
    \/ epoll_ctl_runs

\* A thread that can get the read guard gets it
SpecEpollLock ==
    InitEpollLock /\ [][NextEpollLock]_vars /\ \A t \in EpThreads : WF_vars(epoll_ctl_proceeds(t))

-----------------------------------------------------------------------------
(* epoll_wait: the registrations are pruned, polled and translated back     *)

\* syscalls made in a run of the epoll_wait state machine
MaxWaitCalls == 5
\* the largest maxevents of a call
MaxEvents == 2

\* EpollEvent { events, fd } as epoll_ctl stores it: the bits the caller asked
\* for and the fd field of the caller's event
EpollEvent(events, fd) == [events |-> events, fd |-> fd]
EpollEventBits == {{"EPOLLIN"}, {"EPOLLOUT", "EPOLLET"}, {"EPOLLIN", "EPOLLOUT", "EPOLLERR"}}

\* The translation of the registered bits to the events of a PollStruct, and of
\* the revents back
epoll_to_poll(events) ==
    {p \in {"POLLIN", "POLLOUT", "POLLERR"} :
        \/ (p = "POLLIN" /\ "EPOLLIN" \in events)
        \/ (p = "POLLOUT" /\ "EPOLLOUT" \in events)
        \/ (p = "POLLERR" /\ "EPOLLERR" \in events)}
poll_to_epoll(revents) ==
    {e \in {"EPOLLIN", "EPOLLOUT", "EPOLLERR"} :
        \/ (e = "EPOLLIN" /\ "POLLIN" \in revents)
        \/ (e = "EPOLLOUT" /\ "POLLOUT" \in revents)
        \/ (e = "EPOLLERR" /\ "POLLERR" \in revents)}

\* select_readfds and select_writefds on the one fd of a PollStruct: a socket is
\* always writable, a descriptor that is no socket, pipe or stream is always
\* readable and writable
poll_readable(d, q, table) == IF is_epoll(d) THEN TRUE ELSE select_readable(d, q, table)
poll_selectret(d, q, table, events) ==
    (IF "POLLIN" \in events /\ poll_readable(d, q, table) THEN 1 ELSE 0)
        + (IF "POLLOUT" \in events THEN 1 ELSE 0)

\* poll_syscall on one PollStruct: the revents after select_syscall with a zero
\* timeout; the error set comes back from select as it went in
poll_revents(d, q, table, events) ==
    IF poll_selectret(d, q, table, events) > 0
    THEN {p \in events : \/ (p = "POLLIN" /\ poll_readable(d, q, table))
                         \/ p = "POLLOUT"
                         \/ p = "POLLERR"}
    ELSE {}

\* The registrations epoll_wait keeps all of: the mutant of epoll_prune
epoll_keep(registered_fds, fdt) == registered_fds

\* epoll_wait_syscall removes the registrations of the fds that are closed
epoll_prune(registered_fds, fdt) ==
    [k \in {k \in DOMAIN registered_fds : fdt[k].used} |-> registered_fds[k]]

\* The orders in which the iteration over the map may visit the fds of S
IterationOrders(S) ==
    {o \in [1..Cardinality(S) -> S] : \A i, j \in 1..Cardinality(S) : o[i] = o[j] => i = j}

\* The events epoll_wait hands back: of the first end_idx poll structs, those
\* with revents, each with the fd field of its registration
RECURSIVE epoll_collect(_, _, _, _, _)
epoll_collect(registered_fds, order, revents, i, end_idx) ==
    IF i > end_idx THEN <<>>
    ELSE (IF poll_to_epoll(revents[order[i]]) # {}
          THEN <<EpollEvent(poll_to_epoll(revents[order[i]]), registered_fds[order[i]].fd)>>
          ELSE <<>>)
         \o epoll_collect(registered_fds, order, revents, i + 1, end_idx)

\* epoll_wait_syscall on an epoll instance with maxevents >= 0, once poll has
\* returned: the instance after the call and the events
epoll_wait(d, order, revents, maxevents, fdt) ==
    [d |-> EpollDesc(epoll_prune(d.registered_fds, fdt)),
     events |-> epoll_collect(d.registered_fds, order, revents, 1,
                              Min2(Len(order), maxevents))]

epoll_wait_returns(epfd, maxevents, err, r) ==
    /\ fdtable' = [fdtable EXCEPT ![epfd] = r.d]
    /\ Returns([Call("epoll_wait", epfd, "none", err, Len(r.events), r.events,
                     fdtable[epfd], r.d, {}) EXCEPT !.args = maxevents])

\* The revents poll finds for the open registered fds of the instance d
epoll_revents(d) ==
    [k \in DOMAIN epoll_prune(d.registered_fds, fdtable) |->
        poll_revents(fdtable[k], rxqueue(fdtable, pipes, kernel_rx, k), domsock_accept_table,
                     epoll_to_poll(d.registered_fds[k].events))]

\* epoll_wait_syscall; poll returns when an fd has revents or the timeout, if
\* there is one, is over
epoll_wait_syscall ==
    \E epfd \in Fds, maxevents \in -1..MaxEvents, timeout \in {None, Some(0)} :
        /\ IF ~fdtable[epfd].used
           THEN epoll_wait_returns(epfd, maxevents, "EBADF", [d |-> fdtable[epfd], events |-> <<>>])
           ELSE IF ~is_epoll(fdtable[epfd]) \/ maxevents < 0
           THEN epoll_wait_returns(epfd, maxevents, "EINVAL",
                                   [d |-> fdtable[epfd], events |-> <<>>])
           ELSE /\ timeout = None
                    => \E k \in DOMAIN epoll_revents(fdtable[epfd]) :
                            epoll_revents(fdtable[epfd])[k] # {}
                /\ \E order \in IterationOrders(DOMAIN epoll_revents(fdtable[epfd])) :
                      epoll_wait_returns(epfd, maxevents, "OK",
                            epoll_wait(fdtable[epfd], order, epoll_revents(fdtable[epfd]),
                                       maxevents, fdtable))
        /\ UNCHANGED <<port_table, listening_port_set, domsock_accept_table, fsvars,
                       ud_counter, pipes, kernel_rx, history, threads>>

\* epoll_ctl_syscall with the event of the caller, on an epoll instance and an
\* open fd that is none
epoll_ctl_syscall_event ==
    \E epfd \in Fds, op \in EpollOps \ {"EPOLL_CTL_OTHER"}, fd \in Fds,
       events \in EpollEventBits, evfd \in Fds :
        /\ fd # epfd
        /\ fdtable[epfd].used /\ is_epoll(fdtable[epfd])
        /\ fdtable[fd].used /\ ~is_epoll(fdtable[fd])
        /\ epoll_ctl_returns(epfd, op, fd,
                             epoll_ctl(fdtable, epfd, op, fd, EpollEvent(events, evfd)))
        /\ UNCHANGED <<port_table, listening_port_set, domsock_accept_table, fsvars,
                       ud_counter, pipes, kernel_rx, history, threads>>

\* close_syscall on a socket fd
close_syscall_socket ==
    \E fd \in Fds :
        /\ fdtable[fd].used
        /\ ~is_epoll(fdtable[fd])
        /\ close_returns(fd,
                cleanup_socket_inner_helper(fdtable[fd], "none", FALSE, port_table, "OK"))
        /\ UNCHANGED <<listening_port_set, domsock_accept_table, fsvars, ud_counter, pipes,
                       kernel_rx, history, threads>>

NextEpollWait ==
    \/ (calls < MaxWaitCalls /\ socket_syscall)
    \/ (calls < MaxWaitCalls /\ epoll_create_syscall)
    \/ (calls < MaxWaitCalls /\ epoll_ctl_syscall_event)
    \/ (calls < MaxWaitCalls /\ close_syscall_socket)
    \/ (calls < MaxWaitCalls /\ epoll_wait_syscall)

SpecEpollWait == InitSock /\ [][NextEpollWait]_vars

-----------------------------------------------------------------------------
(* accept_syscall before accept_unix takes an entry: the descriptor is      *)
(* checked, a free fd is asked for, and the socket must be a listening      *)
(* stream socket                                                            *)

\* What accept_syscall returns without a connection, None when it goes on to the
\* accept table: err is the errno, "OK" with ret for a non-negative return value
accept_early_return(fdt, fd) ==
    IF ~fdt[fd].used THEN Some([err |-> "EBADF", ret |-> 0])
    ELSE IF get_next_fd(fdt) = None THEN Some([err |-> "OK", ret |-> fd])
    ELSE IF is_epoll(fdt[fd]) THEN Some([err |-> "ENOTSOCK", ret |-> 0])
    ELSE IF fdt[fd].protocol = "IPPROTO_UDP" THEN Some([err |-> "EOPNOTSUPP", ret |-> 0])
    ELSE IF fdt[fd].state # "LISTEN" THEN Some([err |-> "EINVAL", ret |-> 0])
    ELSE None

\* accept_syscall returns before it looks at the accept table
accept_syscall_early ==
    \E fd \in Fds :
        /\ threads.acc.pc = "idle"
        /\ accept_early_return(fdtable, fd) # None
        /\ Completes(Call("accept", fd, "none", unwrap(accept_early_return(fdtable, fd)).err,
                          unwrap(accept_early_return(fdtable, fd)).ret, <<>>, fdtable[fd],
                          fdtable[fd], {}))
        /\ UNCHANGED <<fdtable, port_table, listening_port_set, domsock_accept_table, fsvars,
                       ud_counter, pipes, kernel_rx, history, threads>>

NextAccept ==
    \/ unix_connect
    \/ unix_connect_wait
    \/ unix_connect_wakes
    \/ accept_lookup
    \/ accept_finish
    \/ accept_syscall_early

SpecAccept == InitUnix /\ [][NextAccept]_vars
-----------------------------------------------------------------------------
(* EmulatedFile (src/src/interface/file.rs): a host file and the size that  *)
(* the emulation records for it.  One thread uses the file.  The host       *)
(* takes every byte of a write_at on a regular file and fills a gap before  *)
(* the offset with zero bytes; a read_at stops at the end of the file.      *)

\* calls made on the file in a run
MaxFileCalls == 3
\* the longest buffer and the largest offset of a call, the longest initial file
MaxFileLen == 2

FileBytes == {1, 2}
FileBufs == UNION {[1..n -> FileBytes] : n \in 0..MaxFileLen}
Zeros(n) == [i \in 1..n |-> 0]
Max(S) == CHOOSE x \in S : \A y \in S : x >= y

\* struct EmulatedFile: fobj is the content of the host file behind the handle
EmulatedFile(content, filesize) == [fobj |-> content, filesize |-> filesize]

\* File::write_at with the O_APPEND behaviour of the host: the bytes go to the end
host_write_append(content, buf, offset) == content \o buf

\* File::write_at of the host (pwrite)
host_write_at(content, buf, offset) ==
    IF Len(buf) = 0 THEN content
    ELSE IF offset >= Len(content)
    THEN content \o Zeros(offset - Len(content)) \o buf
    ELSE SubSeq(content, 1, offset) \o buf
            \o SubSeq(content, offset + Len(buf) + 1, Len(content))

\* File::read_at of the host (pread) into a buffer of length bytes
host_read_at(content, length, offset) ==
    SubSeq(content, offset + 1, Min({offset + length, Len(content)}))

\* File::set_len of the host
host_set_len(content, length) ==
    IF length <= Len(content) THEN SubSeq(content, 1, length)
    ELSE content \o Zeros(length - Len(content))

\* EmulatedFile::writeat
writeat(f, buf, offset) ==
    IF offset > f.filesize
    THEN [f |-> f, err |-> "PANIC", n |-> 0]
    ELSE [f |-> EmulatedFile(host_write_at(f.fobj, buf, offset),
                             IF offset + Len(buf) > f.filesize THEN offset + Len(buf)
                             ELSE f.filesize),
          err |-> "OK", n |-> Len(buf)]

\* EmulatedFile::readat
readat(f, length, offset) ==
    IF offset > f.filesize
    THEN [err |-> "PANIC", data |-> <<>>]
    ELSE [err |-> "OK", data |-> host_read_at(f.fobj, length, offset)]

\* EmulatedFile::shrink
shrink(f, length) ==
    IF length > f.filesize
    THEN [f |-> f, err |-> "PANIC"]
    ELSE [f |-> EmulatedFile(host_set_len(f.fobj, length), length), err |-> "OK"]

\* A call on the file returns
file_returns(op, offset, length, err, n, data, f) ==
    /\ last' = [Call(op, 0, "none", err, n, data, files, f, {})
                  EXCEPT !.args = offset, !.len = length]
    /\ calls' = calls + 1
    /\ files' = f
    /\ UNCHANGED <<fdtable, port_table, listening_port_set, domsock_accept_table, fsvars,
                   ud_counter, pipes, kernel_rx, history, threads>>

\* openfile(filename, filesize) on a host file: the recorded size is the caller's
InitFile ==
    /\ fdtable = [fd \in Fds |-> NoSock]
    /\ port_table = {}
    /\ listening_port_set = {}
    /\ domsock_paths = {}
    /\ domsock_accept_table = EmptyTable
    /\ inodetable = format_fs.inodetable
    /\ nextinode = format_fs.nextinode
    /\ ud_counter = 0
    /\ pipes = <<>>
    /\ kernel_rx = [fd \in Fds |-> <<>>]
    /\ history = [fd \in Fds |-> NoHistory]
    /\ threads = NoThreads
    /\ last = NoCall
    /\ calls = 0
    /\ \E content \in FileBufs, filesize \in 0..MaxFileLen :
          files = EmulatedFile(content, filesize)

writeat_call ==
    \E buf \in FileBufs, offset \in 0..MaxFileLen :
        file_returns("writeat", offset, Len(buf), writeat(files, buf, offset).err,
                     writeat(files, buf, offset).n, buf, writeat(files, buf, offset).f)

readat_call ==
    \E length \in 0..MaxFileLen, offset \in 0..MaxFileLen :
        file_returns("readat", offset, length, readat(files, length, offset).err,
                     Len(readat(files, length, offset).data),
                     readat(files, length, offset).data, files)

shrink_call ==
    \E length \in 0..MaxFileLen :
        file_returns("shrink", 0, length, shrink(files, length).err, 0, <<>>,
                     shrink(files, length).f)

NextFile ==
    \/ (calls < MaxFileCalls /\ writeat_call)
    \/ (calls < MaxFileCalls /\ readat_call)
    \/ (calls < MaxFileCalls /\ shrink_call)

SpecFile == InitFile /\ [][NextFile]_vars
-----------------------------------------------------------------------------
(* EmulatedFileMap (src/src/interface/file.rs): the memory-mapped journal.  *)
(* The first COUNTMAPSIZE bytes of the file are the header, the rest is the *)
(* data region.  write_to_map is modelled in the order of its statements:   *)
(* the map is extended, the bytes are copied, the header is written.        *)

\* completed writes to the journal in a run
MaxLogCalls == 3
COUNTMAPSIZE == 8
\* the size of the first mapping and of every extension (2^20 in the source)
MAP_1MB == 10

\* The entries that are appended: short ones and one that is longer than an
\* extension of the map
LogEntries == {<<1>>, <<2>>, <<1, 2>>, [i \in 1..(MAP_1MB + 3) |-> 3]}
\* What a log file that existed before holds in its header and its data region
StaleCounts == {0, 5}
StaleBytes == {0, 7}

\* n shifted right by k bytes
RECURSIVE ShiftBytes(_, _)
ShiftBytes(n, k) == IF k = 0 THEN n ELSE ShiftBytes(n \div 256, k - 1)
\* usize::to_le_bytes
to_le_bytes(n) == [i \in 1..COUNTMAPSIZE |-> ShiftBytes(n, i - 1) % 256]
\* usize::to_be_bytes
to_be_bytes(n) == [i \in 1..COUNTMAPSIZE |-> ShiftBytes(n, COUNTMAPSIZE - i) % 256]

\* struct EmulatedFileMap with the position inside write_to_map (pc, the entry in
\* bytes_to_write) and the entries of the writes that completed (appended)
EmulatedFileMap(map, count, countmap, mapsize) ==
    [map |-> map, count |-> count, countmap |-> countmap, mapsize |-> mapsize,
     pc |-> "idle", bytes_to_write |-> <<>>, appended |-> <<>>, writes |-> 0]

\* EmulatedFileMap::new on a log file that holds stale bytes or none
mapfilenew(stalecount, stalebyte) ==
    EmulatedFileMap([i \in 1..(MAP_1MB - COUNTMAPSIZE) |-> stalebyte], 0,
                    to_be_bytes(stalecount), MAP_1MB - COUNTMAPSIZE)

\* extend_map: the file and the mapping grow by MAP_1MB, the new bytes are zero
extend_map(m) ==
    [m EXCEPT !.map = m.map \o Zeros(MAP_1MB), !.mapsize = m.mapsize + MAP_1MB]

\* write_to_map up to the slice of the map: the map is extended once when the
\* entry does not fit, and the slice panics when it still does not
write_to_map_slice(m, bytes_to_write) ==
    LET e == IF Len(bytes_to_write) + m.count > m.mapsize THEN extend_map(m) ELSE m
    IN  IF m.count + Len(bytes_to_write) > Len(e.map)
        THEN [e EXCEPT !.pc = "panicked"]
        ELSE [e EXCEPT !.pc = "sliced", !.bytes_to_write = bytes_to_write]

\* mapslice.copy_from_slice(bytes_to_write); self.count += writelen
write_to_map_copy(m) ==
    [m EXCEPT !.map = [i \in 1..Len(m.map) |->
                          IF i > m.count /\ i <= m.count + Len(m.bytes_to_write)
                          THEN m.bytes_to_write[i - m.count] ELSE m.map[i]],
              !.count = m.count + Len(m.bytes_to_write),
              !.pc = "copied"]

\* countmap.copy_from_slice(&self.count.to_be_bytes()); the write is complete
write_to_map_count(m) ==
    [m EXCEPT !.countmap = to_be_bytes(m.count),
              !.appended = m.appended \o m.bytes_to_write,
              !.writes = m.writes + 1,
              !.bytes_to_write = <<>>,
              !.pc = "idle"]

\* A step inside write_to_map
log_steps(m) ==
    /\ files' = m
    /\ UNCHANGED <<fdtable, port_table, listening_port_set, domsock_accept_table, fsvars,
                   ud_counter, pipes, kernel_rx, history, threads, last, calls>>

\* create_log
InitLog ==
    /\ fdtable = [fd \in Fds |-> NoSock]
    /\ port_table = {}
    /\ listening_port_set = {}
    /\ domsock_paths = {}
    /\ domsock_accept_table = EmptyTable
    /\ inodetable = format_fs.inodetable
    /\ nextinode = format_fs.nextinode
    /\ ud_counter = 0
    /\ pipes = <<>>
    /\ kernel_rx = [fd \in Fds |-> <<>>]
    /\ history = [fd \in Fds |-> NoHistory]
    /\ threads = NoThreads
    /\ last = NoCall
    /\ calls = 0
    /\ \E stalecount \in StaleCounts, stalebyte \in StaleBytes :
          files = mapfilenew(stalecount, stalebyte)

\* log_metadata calls write_to_map with the serialized entry
write_to_map_begins ==
    \E bytes_to_write \in LogEntries :
        /\ files.pc = "idle"
        /\ files.writes < MaxLogCalls
        /\ log_steps(write_to_map_slice(files, bytes_to_write))

write_to_map_copies ==
    /\ files.pc = "sliced"
    /\ log_steps(write_to_map_copy(files))

write_to_map_returns ==
    /\ files.pc = "copied"
    /\ files' = write_to_map_count(files)
    /\ last' = Call("write_to_map", 0, "none", "OK", Len(files.bytes_to_write),
                    files.bytes_to_write, files, write_to_map_count(files), {})
    /\ calls' = calls + 1
    /\ UNCHANGED <<fdtable, port_table, listening_port_set, domsock_accept_table, fsvars,
                   ud_counter, pipes, kernel_rx, history, threads>>

NextLog ==
    \/ write_to_map_begins
    \/ write_to_map_copies
    \/ write_to_map_returns

SpecLog == InitLog /\ [][NextLog]_vars
-----------------------------------------------------------------------------
(* The life of the metadata store (src/src/safeposix/filesystem.rs): load_fs *)
(* formats or restores the inode table from the snapshot lind.metadata and  *)
(* the journal lind.md.log, threads bind Unix-domain sockets into it, the   *)
(* table is journalled and persisted, and the process ends.                 *)

\* calls made in the runs of the process
MaxLoadCalls == 5
\* times the process is started
MaxRuns == 2
\* records in the journal
MaxLog == 2
\* inode numbers that log_metadata is called with: the root and the first new one
LoggedInodes == {1, 8}

BindThreads == {"t1", "t2"}
\* the fd that a thread binds
BindFd == [t \in BindThreads |-> IF t = "t1" THEN 1 ELSE 2]
LoadPaths == {<<"a">>, <<"dev", "s">>}

\* serde: refcount is #[serde(skip)] and comes back as 0
serde_inode(inode) == [inode EXCEPT !.refcount = 0]
serde_table(it) == [n \in DOMAIN it |-> serde_inode(it[n])]

\* The host directory: the snapshot and the journal, each Some when the file
\* exists; loaded says that load_fs has run in this process
HostDir(metadata, log, loaded, runs) ==
    [metadata |-> metadata, log |-> log, loaded |-> loaded, runs |-> runs]

\* A thread outside bind, and a thread after the fetch_add of its bind
NotBinding == [pc |-> "user", truepath |-> <<>>, pardirinode |-> 0, newinodenum |-> 0]

\* fsck: the inodes that the table retains
fsck(it) ==
    [n \in {k \in DOMAIN it :
               CASE it[k].type = "File" -> it[k].linkcount # 0
                 [] it[k].type = "Dir" -> it[k].linkcount > 2
                 [] it[k].type = "CharDev" -> it[k].linkcount # 0
                 [] it[k].type = "Socket" -> FALSE} |-> it[n]]

\* One record of the journal applied to the table
replay_record(it, serialpair) ==
    IF serialpair.inode # None
    THEN [n \in DOMAIN it \cup {serialpair.inodenum} |->
             IF n = serialpair.inodenum THEN unwrap(serialpair.inode) ELSE it[n]]
    ELSE [n \in DOMAIN it \ {serialpair.inodenum} |-> it[n]]

\* The drain of logvec in load_fs: the records are applied in order and
\* max_inodenum follows the Some records
RECURSIVE replay(_, _, _)
replay(fs, logvec, i) ==
    IF i > Len(logvec) THEN fs
    ELSE replay([inodetable |-> replay_record(fs.inodetable, logvec[i]),
                 nextinode |-> IF logvec[i].inode # None /\ logvec[i].inodenum > fs.nextinode
                               THEN logvec[i].inodenum ELSE fs.nextinode],
                logvec, i + 1)

\* load_fs on a snapshot with a journal: the records are replayed on the
\* metadata fs, nextinode is stored, and fsck runs
load_fs_replay(fs, logvec) ==
    [inodetable |-> fsck(replay(fs, logvec, 1).inodetable),
     nextinode |-> replay(fs, logvec, 1).nextinode + 1]

\* load_fs: d is the host directory; the result is the metadata in memory and
\* the host directory that the call leaves
load_fs(d) ==
    IF d.metadata # None
    THEN IF d.log # None
         THEN [fs |-> load_fs_replay(unwrap(d.metadata), unwrap(d.log)),
               d |-> HostDir(d.metadata, Some(<<>>), TRUE, d.runs + 1)]
         ELSE [fs |-> unwrap(d.metadata),
               d |-> HostDir(d.metadata, Some(<<>>), TRUE, d.runs + 1)]
    ELSE [fs |-> [inodetable |-> serde_table(format_fs.inodetable),
                  nextinode |-> format_fs.nextinode],
          d |-> HostDir(Some([inodetable |-> serde_table(format_fs.inodetable),
                              nextinode |-> format_fs.nextinode]),
                        Some(<<>>), TRUE, d.runs + 1)]

\* log_metadata: the record of inodenum
log_metadata(it, inodenum) ==
    [inodenum |-> inodenum,
     inode |-> IF inodenum \in DOMAIN it THEN Some(serde_inode(it[inodenum])) ELSE None]

\* persist_metadata
persist_metadata(d, it, next) ==
    [d EXCEPT !.metadata = Some([inodetable |-> serde_table(it), nextinode |-> next])]

\* bind_inner_socket_unix with a load of nextinode in the place of the fetch_add
bind_unix_allocate_load(it, next, path) ==
    LET truepath == normpath(path)
        mw == metawalkandparent(it, truepath)
    IN  IF Len(path) = 0 \/ (mw.inode = None /\ mw.parent = None)
        THEN [err |-> "ENOENT", th |-> NotBinding, nextinode |-> next]
        ELSE IF mw.inode # None
        THEN [err |-> "EADDRINUSE", th |-> NotBinding, nextinode |-> next]
        ELSE [err |-> "OK",
              th |-> [pc |-> "allocated", truepath |-> truepath,
                      pardirinode |-> unwrap(mw.parent), newinodenum |-> next],
              nextinode |-> next]

\* bind_inner_socket_unix up to the fetch_add on nextinode
bind_unix_allocate(it, next, path) ==
    LET truepath == normpath(path)
        mw == metawalkandparent(it, truepath)
    IN  IF Len(path) = 0 \/ (mw.inode = None /\ mw.parent = None)
        THEN [err |-> "ENOENT", th |-> NotBinding, nextinode |-> next]
        ELSE IF mw.inode # None
        THEN [err |-> "EADDRINUSE", th |-> NotBinding, nextinode |-> next]
        ELSE [err |-> "OK",
              th |-> [pc |-> "allocated", truepath |-> truepath,
                      pardirinode |-> unwrap(mw.parent), newinodenum |-> next],
              nextinode |-> next + 1]

\* bind_inner_socket_unix under the lock of the parent directory: the name is
\* entered and the linkcount of the directory grows
bind_unix_link(it, th) ==
    LET dir == it[th.pardirinode]
        filename == th.truepath[Len(th.truepath)]
    IN  IF dir.type = "Dir"
        THEN [err |-> "OK",
              it |-> [it EXCEPT ![th.pardirinode] =
                         [dir EXCEPT !.dict = [n \in DOMAIN dir.dict \cup {filename} |->
                                                  IF n = filename THEN th.newinodenum
                                                  ELSE dir.dict[n]],
                                     !.linkcount = @ + 1]]]
        ELSE [err |-> "ENOTDIR", it |-> it]

\* The end of bind_inner_socket_unix: the socket inode enters the table
bind_unix_insert(it, th) ==
    [n \in DOMAIN it \cup {th.newinodenum} |->
        IF n = th.newinodenum THEN SocketInode ELSE it[n]]

\* The process before load_fs: the metadata in memory is not initialized
InitLoad ==
    /\ fdtable = [fd \in Fds |->
                    IF fd \in {BindFd[t] : t \in BindThreads}
                    THEN mksockhandle("AF_UNIX", "IPPROTO_TCP", "NOTCONNECTED", FALSE)
                    ELSE NoSock]
    /\ port_table = {}
    /\ listening_port_set = {}
    /\ domsock_paths = {}
    /\ domsock_accept_table = EmptyTable
    /\ inodetable = <<>>
    /\ nextinode = 0
    /\ ud_counter = 0
    /\ pipes = <<>>
    /\ kernel_rx = [fd \in Fds |-> <<>>]
    /\ history = [fd \in Fds |-> NoHistory]
    /\ threads = [t \in BindThreads |-> NotBinding]
    /\ last = NoCall
    /\ calls = 0
    /\ files = HostDir(None, None, FALSE, 0)

\* A call on the metadata store returns
load_returns(op, err, args, pre, post) ==
    /\ last' = [Call(op, 0, "none", err, 0, <<>>, pre, post, {}) EXCEPT !.args = args]
    /\ calls' = calls + 1
    /\ UNCHANGED <<port_table, listening_port_set, domsock_accept_table, ud_counter, pipes,
                   kernel_rx, history>>

load_fs_call ==
    /\ ~files.loaded
    /\ files.runs < MaxRuns
    /\ inodetable' = load_fs(files).fs.inodetable
    /\ nextinode' = load_fs(files).fs.nextinode
    /\ files' = load_fs(files).d
    /\ load_returns("load_fs", "OK", <<>>, files, load_fs(files).fs)
    /\ UNCHANGED <<fdtable, domsock_paths, threads>>

log_metadata_call ==
    \E inodenum \in LoggedInodes :
        /\ files.loaded
        /\ Len(unwrap(files.log)) < MaxLog
        /\ files' = [files EXCEPT !.log =
                        Some(Append(unwrap(files.log), log_metadata(inodetable, inodenum)))]
        /\ load_returns("log_metadata", "OK", inodenum, files, files')
        /\ UNCHANGED <<fdtable, fsvars, threads>>

persist_metadata_call ==
    /\ files.loaded
    /\ files' = persist_metadata(files, inodetable, nextinode)
    /\ load_returns("persist_metadata", "OK", <<>>, files, files')
    /\ UNCHANGED <<fdtable, fsvars, threads>>

\* bind_syscall on the Unix-domain socket of thread t, up to the fetch_add
bind_allocates(t) ==
    \E path \in LoadPaths :
        LET r == bind_unix_allocate(inodetable, nextinode, path)
        IN  /\ files.loaded
            /\ threads[t].pc = "user"
            /\ fdtable[BindFd[t]].localaddr = None
            /\ nextinode' = r.nextinode
            /\ threads' = [threads EXCEPT ![t] = r.th]
            /\ IF r.err = "OK"
               THEN UNCHANGED <<last, calls, port_table, listening_port_set,
                                domsock_accept_table, ud_counter, pipes, kernel_rx, history>>
               ELSE load_returns("bind", r.err, UnixAddr(path), fdtable[BindFd[t]],
                                 fdtable[BindFd[t]])
            /\ UNCHANGED <<fdtable, inodetable, domsock_paths, files>>

bind_links(t) ==
    LET r == bind_unix_link(inodetable, threads[t])
    IN  /\ threads[t].pc = "allocated"
        /\ inodetable' = r.it
        /\ IF r.err = "OK"
           THEN /\ threads' = [threads EXCEPT ![t].pc = "linked"]
                /\ UNCHANGED <<last, calls, port_table, listening_port_set,
                               domsock_accept_table, ud_counter, pipes, kernel_rx, history>>
           ELSE /\ threads' = [threads EXCEPT ![t] = NotBinding]
                /\ load_returns("bind", r.err, UnixAddr(threads[t].truepath),
                                fdtable[BindFd[t]], fdtable[BindFd[t]])
        /\ UNCHANGED <<fdtable, nextinode, domsock_paths, files>>

bind_inserts(t) ==
    /\ threads[t].pc = "linked"
    /\ inodetable' = bind_unix_insert(inodetable, threads[t])
    /\ domsock_paths' = domsock_paths \cup {threads[t].truepath}
    /\ fdtable' = [fdtable EXCEPT ![BindFd[t]] =
                      [@ EXCEPT !.unix_info =
                                   Some(UnixSocketInfo(threads[t].newinodenum, None, None)),
                                !.localaddr =
                                   bind_localaddr(UnixAddr(threads[t].truepath))]]
    /\ threads' = [threads EXCEPT ![t] = NotBinding]
    /\ load_returns("bind", "OK", UnixAddr(threads[t].truepath), fdtable[BindFd[t]],
                    fdtable'[BindFd[t]])
    /\ UNCHANGED <<nextinode, files>>

bind_syscall_allocates == \E t \in BindThreads : bind_allocates(t)
bind_syscall_links == \E t \in BindThreads : bind_links(t)
bind_syscall_inserts == \E t \in BindThreads : bind_inserts(t)

\* The process ends: what is in memory is gone, the host directory stays
process_exits ==
    /\ files.loaded
    /\ files.runs < MaxRuns
    /\ files' = [files EXCEPT !.loaded = FALSE]
    /\ inodetable' = <<>>
    /\ nextinode' = 0
    /\ domsock_paths' = {}
    /\ fdtable' = [fd \in Fds |->
                     IF fd \in {BindFd[t] : t \in BindThreads}
                     THEN mksockhandle("AF_UNIX", "IPPROTO_TCP", "NOTCONNECTED", FALSE)
                     ELSE NoSock]
    /\ threads' = [t \in BindThreads |-> NotBinding]
    /\ UNCHANGED <<port_table, listening_port_set, domsock_accept_table, ud_counter, pipes,
                   kernel_rx, history, last, calls>>

NextLoad ==
    \/ load_fs_call
    \/ (calls < MaxLoadCalls /\ log_metadata_call)
    \/ (calls < MaxLoadCalls /\ persist_metadata_call)
    \/ (calls < MaxLoadCalls /\ bind_syscall_allocates)
    \/ bind_syscall_links
    \/ bind_syscall_inserts
    \/ (files.loaded /\ calls < MaxLoadCalls /\ remove_domain_sock)
    \/ process_exits

SpecLoad == InitLoad /\ [][NextLoad]_vars
-----------------------------------------------------------------------------
(* Socket options and the lazily created kernel socket: setsockopt stores   *)
(* SO_REUSEADDR, SO_REUSEPORT and TCP_NODELAY in the handle and forwards a  *)
(* change to the kernel socket when there is one; force_innersocket, called *)
(* by bind, connect and listen, creates the kernel socket.                  *)

\* setsockopt calls and kernel socket creations in a run
MaxOptCalls == 4

\* the fds of the inet stream sockets whose options are set
OptFds == {1, 2}
ReuseOptions == {"SO_REUSEPORT", "SO_REUSEADDR"}
ForwardedOptions == {"SO_REUSEPORT", "SO_REUSEADDR", "TCP_NODELAY"}
\* what the kernel answers to a setsockopt
KernelSetsockoptResults == {"OK", "ENOPROTOOPT"}

\* The part of SocketHandle that setsockopt and force_innersocket use: the options
\* that are set in socket_options and tcp_options, and the options that are set
\* on the kernel socket when there is one
OptHandle(socket_options, tcp_options, innersocket) ==
    [used |-> TRUE, socket_options |-> socket_options, tcp_options |-> tcp_options,
     innersocket |-> innersocket]

\* interface::Socket::new: no option is set on a new kernel socket
NewKernelSocket == {}

\* force_innersocket: the kernel socket is created when there is none, and the
\* reuse options of the handle are set on it
force_innersocket_options(h) ==
    IF h.innersocket = None
    THEN [h EXCEPT !.innersocket =
                      Some(NewKernelSocket \cup (ReuseOptions \cap h.socket_options))]
    ELSE h

\* The options after optname is set to optval
set_optbit(options, optname, optval) ==
    IF optval # 0 THEN options \cup {optname} ELSE options \ {optname}

\* setsockopt of the kernel socket
kernel_setsockopt(sock, optname, optval) == set_optbit(sock, optname, optval)

\* setsockopt_syscall for SOL_TCP/TCP_NODELAY and SOL_SOCKET/SO_REUSEPORT,
\* SO_REUSEADDR; kres is the answer of the kernel when the change is forwarded
setsockopt(h, optname, optval, kres) ==
    LET old == IF optname = "TCP_NODELAY" THEN h.tcp_options ELSE h.socket_options
        newoptions == set_optbit(old, optname, optval)
        stored == IF optname = "TCP_NODELAY" THEN [h EXCEPT !.tcp_options = newoptions]
                  ELSE [h EXCEPT !.socket_options = newoptions]
    IN  IF newoptions # old /\ h.innersocket # None
        THEN IF kres = "OK"
             THEN [h |-> [stored EXCEPT !.innersocket =
                             Some(kernel_setsockopt(unwrap(h.innersocket), optname, optval))],
                   err |-> "OK"]
             ELSE [h |-> h, err |-> kres]
        ELSE [h |-> stored, err |-> "OK"]

\* socket_syscall has made inet stream sockets on the fds of OptFds
InitOpt ==
    /\ fdtable = [fd \in Fds |-> IF fd \in OptFds THEN OptHandle({}, {}, None) ELSE NoSock]
    /\ port_table = {}
    /\ listening_port_set = {}
    /\ domsock_paths = {}
    /\ domsock_accept_table = EmptyTable
    /\ inodetable = format_fs.inodetable
    /\ nextinode = format_fs.nextinode
    /\ ud_counter = 0
    /\ pipes = <<>>
    /\ kernel_rx = [fd \in Fds |-> <<>>]
    /\ history = [fd \in Fds |-> NoHistory]
    /\ threads = NoThreads
    /\ last = NoCall
    /\ calls = 0
    /\ files = NoFiles

opt_call_returns(op, fd, how, err, args, h) ==
    /\ fdtable' = [fdtable EXCEPT ![fd] = h]
    /\ Returns([Call(op, fd, how, err, 0, <<>>, fdtable[fd], h, {}) EXCEPT !.args = args])
    /\ UNCHANGED <<port_table, listening_port_set, domsock_accept_table, fsvars, ud_counter,
                   pipes, kernel_rx, history, threads>>

setsockopt_syscall ==
    \E fd \in OptFds, optname \in ForwardedOptions, optval \in {0, 1},
       kres \in KernelSetsockoptResults :
        opt_call_returns("setsockopt", fd, optname,
                         setsockopt(fdtable[fd], optname, optval, kres).err, optval,
                         setsockopt(fdtable[fd], optname, optval, kres).h)

\* bind, connect or listen reaches force_innersocket
force_innersocket_call ==
    \E fd \in OptFds, op \in {"bind", "connect", "listen"} :
        opt_call_returns(op, fd, "none", "OK", <<>>, force_innersocket_options(fdtable[fd]))

NextOpt ==
    \/ (calls < MaxOptCalls /\ setsockopt_syscall)
    \/ (calls < MaxOptCalls /\ force_innersocket_call)

SpecOpt == InitOpt /\ [][NextOpt]_vars
-----------------------------------------------------------------------------
(* epoll_wait on an instance with several registrations *)

\* syscalls made in a run of the state machine of the registrations
MaxReadyCalls == 6

\* socket_syscall for an inet TCP socket
socket_syscall_tcp == socket_call({"AF_INET"}, {"IPPROTO_TCP"})

\* epoll_ctl_syscall with EPOLL_CTL_ADD and an event that carries the fd it
\* registers
epoll_ctl_syscall_add ==
    \E epfd \in Fds, fd \in Fds, events \in EpollEventBits :
        /\ fd # epfd
        /\ fdtable[epfd].used /\ is_epoll(fdtable[epfd])
        /\ fdtable[fd].used /\ ~is_epoll(fdtable[fd])
        /\ epoll_ctl_returns(epfd, "EPOLL_CTL_ADD", fd,
                             epoll_ctl(fdtable, epfd, "EPOLL_CTL_ADD", fd,
                                       EpollEvent(events, fd)))
        /\ UNCHANGED <<port_table, listening_port_set, domsock_accept_table, fsvars,
                       ud_counter, pipes, kernel_rx, history, threads>>

NextEpollReady ==
    \/ (calls < MaxReadyCalls /\ socket_syscall_tcp)
    \/ (calls < MaxReadyCalls /\ epoll_create_syscall)
    \/ (calls < MaxReadyCalls /\ epoll_ctl_syscall_add)
    \/ (calls < MaxReadyCalls /\ epoll_wait_syscall)

SpecEpollReady == InitSock /\ [][NextEpollReady]_vars

-----------------------------------------------------------------------------
(* The properties of the socket layer *)

\* The stream a recv on fd has not consumed yet: what it peeked, then its queue
Unconsumed(fdt, ps, krx, fd) == fdt[fd].last_peek \o rxqueue(fdt, ps, krx, fd)

\* fd is a stream socket with a queue that a peer fills
StreamFd(fd) ==
    /\ fdtable[fd].used
    /\ fdtable[fd].protocol = "IPPROTO_TCP"
    /\ IF fdtable[fd].domain = "AF_UNIX" THEN has_receive_queue(fdtable[fd])
       ELSE fdtable[fd].innersocket = "connected"

\* The connector on fd has published a rendezvous record
Published(fd) ==
    /\ threads.conn[fd] # "idle"
    /\ fdtable[fd].state = "CONNECTED"
    /\ sendpipe_of(fdtable[fd]) # None

\* The record of the connector on fd is in the accept table
Pending(fd) ==
    \E p \in DOMAIN domsock_accept_table :
        Some(domsock_accept_table[p].receive_pipe) = sendpipe_of(fdtable[fd])

\* An accept has looked up the record of the connector on fd and holds its fields
Held(fd) ==
    /\ threads.acc.pc = "holding"
    /\ Some(threads.acc.ds.receive_pipe) = sendpipe_of(fdtable[fd])

\* The sockets that accept returned for the connector on fd, wired to its pipes
AcceptedFor(fd) ==
    {a \in Fds \ {fd} :
        /\ fdtable[a].used
        /\ fdtable[a].unix_info # None
        /\ unwrap(fdtable[a].unix_info).receivepipe = sendpipe_of(fdtable[fd])
        /\ unwrap(fdtable[a].unix_info).sendpipe = unwrap(fdtable[fd].unix_info).receivepipe}

\* C1: every rendezvous record a connect published is still in the accept table,
\* or held by the accept that looked it up, or was consumed by exactly one accept
\* whose socket is cross-wired to the connector's pipes; no record is lost.
C1_EveryRecordConsumedOnce ==
    \A fd \in ClientFds :
        Published(fd) =>
            /\ Pending(fd) \/ Held(fd) \/ AcceptedFor(fd) # {}
            /\ Cardinality(AcceptedFor(fd)) <= 1

\* C2 as stated: a blocking connect that has returned finds its rendezvous record
\* taken out of the accept table.
C2_ReturnsAfterRemoval ==
    \A fd \in ClientFds :
        (Published(fd) /\ ~fdtable[fd].nonblock /\ threads.conn[fd] = "returned")
            => ~Pending(fd)

C2_SignalledFirst ==
    \A fd \in ClientFds :
        /\ (~fdtable[fd].nonblock /\ threads.conn[fd] \in {"woken", "returned"})
              => (Held(fd) \/ AcceptedFor(fd) # {})
        /\ fdtable[fd].nonblock => threads.conn[fd] \in {"idle", "returned"}

\* C2 amended: a blocking connect is not woken and does not return before an accept
\* has looked up its rendezvous record and signalled its cond_var (the record may
\* still be in the table), a connect that was signalled returns, and a non-blocking
\* connect never waits.
C2_ReturnsAfterSignal ==
    /\ []C2_SignalledFirst
    /\ \A fd \in ClientFds : (threads.conn[fd] = "woken") ~> (threads.conn[fd] = "returned")

C2_Witness ==
    \E fd \in ClientFds :
        /\ ~fdtable[fd].nonblock
        /\ threads.conn[fd] = "returned"
        /\ AcceptedFor(fd) # {}
        /\ last.op = "accept" /\ last.err = "OK"

\* The transition table of shutdown as the design states it
ShutdownTable(state, how) ==
    CASE state = "CONNECTED" ->
            (CASE how = "SHUT_RD" -> "CONNWRONLY" [] how = "SHUT_WR" -> "CONNRDONLY"
               [] OTHER -> "NOTCONNECTED")
      [] state = "CONNWRONLY" ->
            (CASE how = "SHUT_RD" -> "NOTCONNECTED" [] how = "SHUT_WR" -> "CONNWRONLY"
               [] OTHER -> "NOTCONNECTED")
      [] state = "CONNRDONLY" ->
            (CASE how = "SHUT_RD" -> "CONNRDONLY" [] how = "SHUT_WR" -> "NOTCONNECTED"
               [] OTHER -> "NOTCONNECTED")
      [] OTHER -> state

\* C3: a successful shutdown of a CONNECTED, CONNWRONLY or CONNRDONLY handle (one
\* that was connected to a peer) leaves it in the state the transition table gives
\* for the direction.
C3_ShutdownFollowsTable ==
    (/\ last.op = "shutdown"
     /\ last.err = "OK"
     /\ last.pre.remoteaddr # None
     /\ last.pre.state \in {"CONNECTED", "CONNWRONLY", "CONNRDONLY"})
        => last.post.state = ShutdownTable(last.pre.state, last.how)

\* The edges of the connection state machine; every state may fall back to NOTCONNECTED
StateEdges ==
    {<<"NOTCONNECTED", "INPROGRESS">>, <<"NOTCONNECTED", "CONNECTED">>,
     <<"NOTCONNECTED", "LISTEN">>, <<"INPROGRESS", "CONNECTED">>}
    \cup ({"CONNECTED", "CONNRDONLY", "CONNWRONLY"}
            \X {"CONNRDONLY", "CONNWRONLY", "NOTCONNECTED"})
    \cup ({"INPROGRESS", "LISTEN"} \X {"NOTCONNECTED"})

\* C4: a call moves the state of a handle along an edge of the state machine only;
\* a NOTCONNECTED or LISTEN handle never becomes CONNRDONLY or CONNWRONLY.
C4_StateMovesAlongEdges ==
    (last.pre.used /\ last.pre.state # last.post.state)
        => <<last.pre.state, last.post.state>> \in StateEdges

\* C5: a shutdown that leaves a bound, connected inet handle NOTCONNECTED has released
\* its port and cleared its local address; one that leaves it half-open released nothing.
C5_ShutdownReleasesPort ==
    (/\ last.op = "shutdown"
     /\ last.err = "OK"
     /\ last.pre.remoteaddr # None
     /\ last.pre.domain = "AF_INET"
     /\ last.pre.state \in {"CONNECTED", "CONNWRONLY", "CONNRDONLY"}
     /\ last.pre.localaddr # None)
        => /\ last.post.state = "NOTCONNECTED"
                => /\ last.post.localaddr = None
                   /\ unwrap(last.pre.localaddr).port \in last.rel
           /\ last.post.state \in {"CONNRDONLY", "CONNWRONLY"}
                => /\ last.rel = {}
                   /\ last.post.localaddr = last.pre.localaddr

\* C6: every reserved local port is the port of the local address of an open inet
\* socket; no reservation remains for a socket that does not hold it.
C6_ReservedPortsAreHeld ==
    \A p \in port_table :
        \E fd \in Fds :
            /\ fdtable[fd].used
            /\ fdtable[fd].domain = "AF_INET"
            /\ fdtable[fd].localaddr = Some(InetAddr(p))

C7_NothingLost ==
    \A fd \in Fds :
        StreamFd(fd) =>
            history[fd].rcvd \o Unconsumed(fdtable, pipes, kernel_rx, fd)
                = history[fd].arrived

C7_RecvStep ==
    (last'.op = "recv" /\ calls' = calls + 1 /\ StreamFd(last'.fd))
        => /\ last'.data = SubSeq(Unconsumed(fdtable, pipes, kernel_rx, last'.fd), 1,
                                  Len(last'.data))
           /\ last'.how = "MSG_PEEK"
                => Unconsumed(fdtable', pipes', kernel_rx', last'.fd)
                     = Unconsumed(fdtable, pipes, kernel_rx, last'.fd)
           /\ last'.how # "MSG_PEEK"
                => Unconsumed(fdtable', pipes', kernel_rx', last'.fd)
                     = SubSeq(Unconsumed(fdtable, pipes, kernel_rx, last'.fd),
                              Len(last'.data) + 1,
                              Len(Unconsumed(fdtable, pipes, kernel_rx, last'.fd)))

\* C7: on a connected stream socket a recv returns a prefix of the bytes not yet
\* consumed; with MSG_PEEK it consumes nothing, without it exactly the bytes it
\* returns; the bytes the recv calls without MSG_PEEK returned, followed by the
\* bytes not yet consumed, are the bytes that arrived.
C7_PeekConsumesNothing == []C7_NothingLost /\ [][C7_RecvStep]_vars

C7_Witness ==
    /\ last.op = "recv"
    /\ last.how = "MSG_PEEK"
    /\ last.err = "OK"
    /\ Len(last.pre.last_peek) > 0
    /\ Len(last.data) > Len(last.pre.last_peek)

\* C8: a recvfrom with MSG_PEEK on a UDP socket leaves the datagrams of the
\* kernel socket queued, so that the next recvfrom returns the peeked datagram.
C8_UdpPeekLeavesDatagram ==
    [][(/\ last'.op = "recv"
        /\ calls' = calls + 1
        /\ last'.pre.protocol = "IPPROTO_UDP"
        /\ last'.how = "MSG_PEEK"
        /\ last'.err = "OK")
          => kernel_rx' = kernel_rx]_vars

C9_PairWired ==
    last.op = "socketpair"
        => /\ fdtable[last.fd].state = "CONNECTED"
           /\ fdtable[last.n].state = "CONNECTED"
           /\ receivers(fdtable, sendpipe_of(fdtable[last.fd])) = {last.n}
           /\ receivers(fdtable, sendpipe_of(fdtable[last.n])) = {last.fd}

C9_RoundTrip ==
    /\ (/\ last.op = "send"
        /\ last.pre.domain = "AF_UNIX"
        /\ last.err = "OK"
        /\ last.n = Len(last.data)
        /\ last'.op = "recv"
        /\ calls' = calls + 1
        /\ last'.how = "none"
        /\ last'.len >= Len(last.data)
        /\ last'.fd \in receivers(fdtable, sendpipe_of(fdtable[last.fd]))
        /\ Unconsumed(fdtable, pipes, kernel_rx, last'.fd) = last.data)
          => (last'.err = "OK" /\ last'.data = last.data)
    /\ (last'.op = "send" /\ calls' = calls + 1)
          => Unconsumed(fdtable', pipes', kernel_rx', last'.fd)
               = Unconsumed(fdtable, pipes, kernel_rx, last'.fd)

\* C9: the two sockets of a socketpair are CONNECTED and each receives from the
\* pipe the other sends to; a send of x on one end followed by a recv on the other
\* end returns x; a send never adds to what its own end receives.
C9_SocketpairRoundTrip == []C9_PairWired /\ [][C9_RoundTrip]_vars

C9_Witness ==
    /\ last.op = "recv"
    /\ last.err = "OK"
    /\ last.pre.domain = "AF_UNIX"
    /\ last.data = <<2, 3>>
    /\ calls = 3

\* C10: send on a TCP socket is accepted exactly when the handle is CONNECTED or
\* CONNWRONLY; in every other state it fails with ENOTCONN and writes nothing.
C10_SendNeedsWritableState ==
    (last.op = "send" /\ last.pre.protocol = "IPPROTO_TCP")
        => /\ (last.err # "ENOTCONN") <=> (last.pre.state \in {"CONNECTED", "CONNWRONLY"})
           /\ last.err = "ENOTCONN" => last.n = 0

C11_SendtoStep ==
    (last'.op = "sendto" /\ calls' = calls + 1 /\ last'.pre.protocol = "IPPROTO_TCP")
        => IF last'.args.port = 0 /\ last'.args.unspecified
           THEN IF last'.how \notin {"none", "MSG_NOSIGNAL"}
                THEN last'.err = "EOPNOTSUPP" /\ last'.n = 0 /\ pipes' = pipes
                ELSE /\ last'.err # "EISCONN"
                     /\ last'.pre.state \notin {"CONNECTED", "CONNWRONLY"}
                            => (last'.err = "ENOTCONN" /\ last'.n = 0 /\ pipes' = pipes)
                     /\ last'.pre.state = "CONNECTED" => last'.err # "ENOTCONN"
                     /\ (last'.err = "OK" /\ last'.pre.domain = "AF_INET")
                            => last'.n = Len(last'.data)
                     /\ last'.err # "OK" => (last'.n = 0 /\ pipes' = pipes)
           ELSE /\ last'.n = 0
                /\ UNCHANGED <<fdtable, pipes, port_table, fsvars, history>>
                /\ last'.err =
                      IF last'.pre.domain = "AF_UNIX" THEN "EISCONN"
                      ELSE IF last'.args.family # last'.pre.domain THEN "EINVAL"
                      ELSE IF last'.how \notin {"none", "MSG_NOSIGNAL"} THEN "EOPNOTSUPP"
                      ELSE "EISCONN"

C12_UdpSendNeedsRemote ==
    (/\ last.op = "send"
     /\ last.pre.protocol = "IPPROTO_UDP"
     /\ last.pre.remoteaddr = None
     /\ last.how \in {"none", "MSG_NOSIGNAL"})
        => (last.err = "ENOTCONN" /\ last.n = 0 /\ last.post = last.pre)

\* The handles and the global tables that a rejected call must leave alone
C13_Frame == UNCHANGED <<fdtable, port_table, listening_port_set, domsock_accept_table, fsvars>>

C13_MisuseStep ==
    /\ (last'.op = "bind" /\ calls' = calls + 1 /\ fdtable[last'.fd].localaddr # None)
          => (last'.err = "EINVAL" /\ C13_Frame)
    /\ (/\ last'.op = "connect"
        /\ calls' = calls + 1
        /\ fdtable[last'.fd].protocol = "IPPROTO_TCP"
        /\ fdtable[last'.fd].state # "NOTCONNECTED")
          => (last'.err = "EISCONN" /\ C13_Frame)

SocketSupported(a) ==
    /\ a.domain \in {"AF_INET", "AF_INET6", "AF_UNIX"}
    /\ \/ a.socktype = "SOCK_STREAM" /\ a.protocol \in {"DEFAULT", "IPPROTO_TCP"}
       \/ a.socktype = "SOCK_DGRAM" /\ a.protocol \in {"DEFAULT", "IPPROTO_UDP"}

\* C14: socket with a supported combination of domain, type and protocol returns a
\* new fd whose handle is NOTCONNECTED, unbound, without kernel socket and carries
\* the NONBLOCK and CLOEXEC flags of the call; every other combination fails with
\* EOPNOTSUPP and allocates no fd.
C14_SocketAcceptsSupported ==
    last.op = "socket"
        => IF SocketSupported(last.args)
           THEN /\ last.err = "OK"
                /\ fdtable[last.fd] = last.post
                /\ last.post.state = "NOTCONNECTED"
                /\ last.post.localaddr = None
                /\ last.post.innersocket = "none"
                /\ last.post.nonblock = last.args.nonblocking
                /\ last.post.cloexec = last.args.cloexec
           ELSE /\ last.err = "EOPNOTSUPP"
                /\ last.fd = 0

\* The parent of the last component of a normalized path
ParentPath(truepath) == SubSeq(truepath, 1, Len(truepath) - 1)

C15_BindStep ==
    (/\ last'.op = "bind"
     /\ calls' = calls + 1
     /\ last'.pre.domain = "AF_UNIX"
     /\ last'.pre.localaddr = None
     /\ Len(normpath(last'.args.path)) > 0)
        => /\ metawalk(inodetable, normpath(last'.args.path)) # None
                => last'.err = "EADDRINUSE"
           /\ (/\ metawalk(inodetable, normpath(last'.args.path)) = None
               /\ metawalk(inodetable, ParentPath(normpath(last'.args.path))) = None)
                => last'.err = "ENOENT"
           /\ (/\ metawalk(inodetable, normpath(last'.args.path)) = None
               /\ metawalk(inodetable, ParentPath(normpath(last'.args.path))) # None
               /\ inodetable[unwrap(metawalk(inodetable,
                                 ParentPath(normpath(last'.args.path))))].type # "Dir")
                => last'.err = "ENOTDIR"
           /\ last'.err \in {"EADDRINUSE", "ENOENT", "ENOTDIR"}
                => UNCHANGED <<inodetable, domsock_paths>>

\* C15: a Unix-domain bind returns EADDRINUSE when the normalized path resolves to
\* an entry, ENOENT when its parent does not exist, ENOTDIR when its parent exists
\* and is not a directory; in these cases the inode table (inodes and directories)
\* and domsock_paths are left as they were.
C15_UnixBindErrors == [][C15_BindStep]_vars

\* The paths that the sockets of the model may be bound to
C16_Paths ==
    {normpath(p) : p \in BindPaths} \cup {gen_ud_path(k) : k \in 0..MaxUd} \cup domsock_paths

C16_PathsAreSockets ==
    \A p \in C16_Paths :
        p \in domsock_paths
            <=> /\ metawalk(inodetable, p) # None
                /\ unwrap(metawalk(inodetable, p)) \in DOMAIN inodetable
                /\ inodetable[unwrap(metawalk(inodetable, p))].type = "Socket"

C16_RemoveStep ==
    (last'.op = "remove_domain_sock" /\ calls' = calls + 1)
        => (last'.err = "OK" /\ last'.args \notin domsock_paths'
            /\ metawalk(inodetable', last'.args) = None)

\* C16: in every state reached by Unix-domain binds (explicit, or implicit in
\* connect and socketpair) and remove_domain_sock a path is in domsock_paths if and
\* only if it resolves to an inode of the inode table that is a Socket; a removal
\* takes the path out of both.
C16_DomsockPathsMatchInodes == []C16_PathsAreSockets /\ [][C16_RemoveStep]_vars

C16_Witness ==
    /\ last.op = "remove_domain_sock"
    /\ last.err = "OK"
    /\ last.args = <<"dev", "s">>
    /\ \E fd \in Fds : fdtable[fd].localaddr = Some(UnixAddr(<<"dev", "s">>))
    /\ \E p \in {gen_ud_path(k) : k \in 0..MaxUd} : p \in domsock_paths

\* The last call was a listen on an inet TCP socket in which the kernel's listen
\* failed: the socket was bound before the call or by the implicit bind inside it
C17_KernelListenFailed ==
    /\ last.op = "listen"
    /\ last.err # "OK"
    /\ last.pre.domain = "AF_INET"
    /\ last.pre.protocol = "IPPROTO_TCP"
    /\ last.pre.state = "NOTCONNECTED"
    /\ last.post.localaddr # None
    /\ (last.pre.localaddr # None \/ last.post.innersocket = "bound")

\* C17: when the kernel's listen fails, the handle is NOTCONNECTED again, its port
\* is not in the listening set, and the local port the socket held (also one that
\* the implicit bind inside listen reserved) has been released.
C17_ListenFailureReleasesPort ==
    C17_KernelListenFailed
        => /\ last.post.state = "NOTCONNECTED"
           /\ unwrap(last.post.localaddr).port \notin listening_port_set
           /\ unwrap(last.post.localaddr).port \notin port_table

\* The thread is inside the wait loop of a blocking call that has no timeout and
\* the cancel flag of the cage is set
C18_BlockedAndCancelled ==
    /\ threads.blk.pc = "loop"
    /\ threads.blk.end_time = None
    /\ threads.cancelstatus

\* C18: a thread that is blocked in recv, accept, select or poll with nothing to
\* deliver does not stay in its wait loop once the cancel flag of the cage is
\* set: it gets to the cancel-point loop, as the claim has it, or at the least
\* out of the wait loop.
C18_CancelledThreadParks ==
    C18_BlockedAndCancelled ~> (threads.blk.pc \in {"cancelpoint", "user"})

\* A thread is inside select_writefds on fd and has found that the kernel
\* connect of the INPROGRESS inet TCP handle completed
C19_SelectFoundConnection(fd) ==
    /\ fdtable[fd].domain = "AF_INET"
    /\ fdtable[fd].protocol = "IPPROTO_TCP"
    /\ fdtable[fd].state = "INPROGRESS"
    /\ \E t \in SelThreads : threads[t] = WantsWrite("select", fd)

\* select has returned fd as writable and left its handle CONNECTED
C19_SelectReturned(fd) ==
    /\ last.op = "select"
    /\ last.fd = fd
    /\ last.err = "OK"
    /\ last.n = 1
    /\ last.post.state = "CONNECTED"

\* C19: a select whose write set holds an inet TCP socket that is INPROGRESS and
\* whose kernel connect has completed returns: it reports the fd as writable and
\* leaves the handle CONNECTED, it does not wait for the lock of the handle.
C19_SelectCompletesConnection ==
    \A fd \in Fds : C19_SelectFoundConnection(fd) ~> C19_SelectReturned(fd)

\* The last call was epoll_ctl with EPOLL_CTL_DEL on an epoll instance and an
\* open target fd that is not an epoll instance
C20_DelOnOpenFd ==
    /\ last.op = "epoll_ctl"
    /\ last.how = "EPOLL_CTL_DEL"
    /\ last.pre.used
    /\ is_epoll(last.pre)
    /\ fdtable[last.args].used
    /\ ~is_epoll(fdtable[last.args])

\* C20: epoll_ctl with EPOLL_CTL_DEL on an open target fd that is not an epoll
\* instance returns 0 whether or not the fd was registered, the fd is not
\* registered afterwards, and the process is not aborted.
C20_DelAlwaysSucceeds ==
    C20_DelOnOpenFd
        => /\ last.err = "OK"
           /\ last.args \notin DOMAIN last.post.registered_fds

\* Thread t is inside epoll_ctl on an epoll instance with a target fd that holds
\* an epoll instance
C21_InsideWithEpollTarget(t) ==
    /\ threads[t].pc = "read"
    /\ fdtable[threads[t].fd].used
    /\ is_epoll(fdtable[threads[t].fd])

\* C21: epoll_ctl with a target fd that is an epoll descriptor, the epoll fd
\* itself included, always returns: with an error and the registration map as it
\* was.
C21_EpollTargetRejected ==
    /\ \A t \in EpThreads : C21_InsideWithEpollTarget(t) ~> (threads[t].pc = "user")
    /\ [][\A t \in EpThreads :
            (C21_InsideWithEpollTarget(t) /\ threads'[t].pc = "user")
                => /\ last'.err \notin {"OK", "PANIC"}
                   /\ last'.post = last'.pre]_vars

\* The last call was an epoll_wait on an epoll instance
C22_Waited ==
    /\ last.op = "epoll_wait"
    /\ last.pre.used
    /\ is_epoll(last.pre)

\* C22 as stated: epoll_wait returns at most maxevents events, every returned
\* event belongs to an fd that is registered and still open and carries only
\* EPOLLIN, EPOLLOUT or EPOLLERR bits, and after the call no registration remains
\* for an fd that had been closed.
C22_WaitReturnsRegistered ==
    C22_Waited
        => /\ last.err = "OK" => last.n <= last.args
           /\ \A i \in 1..Len(last.data) :
                /\ last.data[i].fd \in DOMAIN last.post.registered_fds
                /\ fdtable[last.data[i].fd].used
                /\ last.data[i].events \subseteq {"EPOLLIN", "EPOLLOUT", "EPOLLERR"}
           /\ \A k \in DOMAIN last.post.registered_fds : fdtable[k].used

\* C22, amended: an epoll_wait with maxevents >= 0 succeeds with at most
\* maxevents events; every returned event carries the fd field that the caller
\* stored with the registration of an fd that is registered and still open, and
\* only EPOLLIN, EPOLLOUT or EPOLLERR bits; after the call the registrations are
\* those of before for the fds that are open.
C22_WaitReturnsStoredEvents ==
    (C22_Waited /\ last.args >= 0)
        => /\ last.err = "OK"
           /\ last.n = Len(last.data)
           /\ last.n <= last.args
           /\ \A i \in 1..Len(last.data) :
                /\ \E k \in DOMAIN last.post.registered_fds :
                      /\ fdtable[k].used
                      /\ last.data[i].fd = last.post.registered_fds[k].fd
                /\ last.data[i].events # {}
                /\ last.data[i].events \subseteq {"EPOLLIN", "EPOLLOUT", "EPOLLERR"}
           /\ DOMAIN last.post.registered_fds =
                 {k \in DOMAIN last.pre.registered_fds : fdtable[k].used}
           /\ \A k \in DOMAIN last.post.registered_fds :
                 last.post.registered_fds[k] = last.pre.registered_fds[k]

\* An epoll_wait returned an event whose fd field is not the fd it was
\* registered for
C22_Witness ==
    /\ C22_Waited
    /\ last.err = "OK"
    /\ last.n >= 1
    /\ last.data[1].fd \notin DOMAIN last.post.registered_fds

\* C23: every failure of accept is a negative errno, and a non-negative return
\* value of accept is the fd of a descriptor that the call allocated: it was free
\* before the call, is a CONNECTED socket after it, and is not the listening fd.
C23_AcceptReturnsNewFd ==
    [][(last'.op = "accept" /\ last' # last /\ last'.err = "OK")
          => /\ last'.n # last'.fd
             /\ ~fdtable[last'.n].used
             /\ fdtable'[last'.n].used
             /\ fdtable'[last'.n].state = "CONNECTED"]_vars

\* C24: on a file used by one thread, writeat of a buffer b at an offset not
\* beyond the recorded size returns |b| and raises the recorded size to
\* max(previous size, offset + |b|), and a readat of |b| bytes at the same offset
\* that follows it returns exactly b.
C24_WriteThenRead ==
    [][/\ (last'.op = "writeat" /\ last'.args <= last'.pre.filesize)
            => /\ last'.err = "OK"
               /\ last'.n = Len(last'.data)
               /\ last'.post.filesize =
                     Max({last'.pre.filesize, last'.args + Len(last'.data)})
       /\ (/\ last.op = "writeat"
           /\ last.err = "OK"
           /\ last'.op = "readat"
           /\ calls' = calls + 1
           /\ last'.args = last.args
           /\ last'.len = Len(last.data))
            => /\ last'.err = "OK"
               /\ last'.data = last.data]_vars

\* A writeat inside the recorded size that overwrites bytes of the host file and
\* moves the recorded size
C24_Witness ==
    /\ last.op = "writeat"
    /\ last.err = "OK"
    /\ Len(last.data) = 2
    /\ last.args = 1
    /\ last.pre.filesize = 2
    /\ Len(last.pre.fobj) = 2
    /\ last.post.filesize = 3

C26_FreshTreeResolves ==
    (last.op = "load_fs" /\ last.pre.metadata = None /\ last.pre.log = None)
        => /\ metawalk(last.post.inodetable, <<"dev">>) = Some(2)
           /\ metawalk(last.post.inodetable, <<"dev", "null">>) = Some(3)
           /\ metawalk(last.post.inodetable, <<"dev", "zero">>) = Some(4)
           /\ metawalk(last.post.inodetable, <<"dev", "urandom">>) = Some(5)
           /\ metawalk(last.post.inodetable, <<"dev", "random">>) = Some(6)
           /\ metawalk(last.post.inodetable, <<"tmp">>) = Some(7)
           /\ \A n \in 3..6 : last.post.inodetable[n].mode = "S_IFCHR|0666"
           /\ last.post.inodetable[7].mode = "S_IFDIR|0755"
           /\ last.post.nextinode = 8

\* The directories of the inode table
C27_Dirs == {n \in DOMAIN inodetable : inodetable[n].type = "Dir"}

\* C27: in every state of the loaded metadata, the entry table of every
\* directory maps "." to the directory's own inode number and ".." to its parent,
\* a directory that has an entry for it; the root's ".." is the root.
C27_DotAndDotDot ==
    files.loaded
        => \A n \in C27_Dirs :
              /\ {".", ".."} \subseteq DOMAIN inodetable[n].dict
              /\ inodetable[n].dict["."] = n
              /\ n = ROOTDIRECTORYINODE => inodetable[n].dict[".."] = ROOTDIRECTORYINODE
              /\ n # ROOTDIRECTORYINODE
                    => /\ inodetable[n].dict[".."] \in C27_Dirs
                       /\ \E f \in DOMAIN inodetable[inodetable[n].dict[".."]].dict
                                      \ {".", ".."} :
                             inodetable[inodetable[n].dict[".."]].dict[f] = n

\* The entries of directory n of table it that are directories
C28_SubDirs(it, n) ==
    {f \in DOMAIN it[n].dict \ {".", ".."} :
        it[n].dict[f] \in DOMAIN it /\ it[it[n].dict[f]].type = "Dir"}

\* C28: after load_fs, fresh format or replay with fsck, every directory of the
\* table has linkcount 2 + the number of its entries that are directories, plus
\* one for the root.
C28_DirLinkcount ==
    last.op = "load_fs"
        => \A n \in DOMAIN last.post.inodetable :
              last.post.inodetable[n].type = "Dir"
                 => last.post.inodetable[n].linkcount =
                       2 + Cardinality(C28_SubDirs(last.post.inodetable, n))
                         + (IF n = ROOTDIRECTORYINODE THEN 1 ELSE 0)

\* C29: in every state of the loaded metadata, after a format, after a replay
\* of the journal and while threads bind Unix-domain sockets, every inode number
\* of the inode table is smaller than nextinode.
C29_InodesBelowNext ==
    files.loaded => \A n \in DOMAIN inodetable : n < nextinode

\* In the second run of the process, after a replay, a bind has entered its
\* socket inode while another thread is between its fetch_add and its insert
C29_Witness ==
    /\ files.loaded
    /\ files.runs = 2
    /\ threads["t1"].pc = "allocated"
    /\ threads["t2"].pc = "user"
    /\ \E n \in DOMAIN inodetable : n > 8 /\ inodetable[n].type = "Socket"

\* The inode numbers that a load_fs with snapshot and journal observes
C30_Observed(d) ==
    DOMAIN unwrap(d.metadata).inodetable
        \cup {unwrap(d.log)[i].inodenum : i \in {j \in 1..Len(unwrap(d.log)) :
                                                   unwrap(d.log)[j].inode # None}}

\* The records of the journal for inode number n
C30_RecordsOf(d, n) == {i \in 1..Len(unwrap(d.log)) : unwrap(d.log)[i].inodenum = n}

\* C30: a load_fs that finds a snapshot and a journal leaves, for every inode
\* number, what the last record of the journal for it says, or the inode of the
\* snapshot when there is no record, and sets nextinode to the largest inode
\* number of the snapshot and of the inserting records plus one.
C30_ReplayInOrder ==
    (last.op = "load_fs" /\ last.pre.metadata # None /\ last.pre.log # None)
        => /\ \A n \in DOMAIN last.post.inodetable :
                 IF C30_RecordsOf(last.pre, n) # {}
                 THEN unwrap(last.pre.log)[Max(C30_RecordsOf(last.pre, n))].inode
                         = Some(last.post.inodetable[n])
                 ELSE last.post.inodetable[n] = unwrap(last.pre.metadata).inodetable[n]
           /\ last.post.nextinode = Max(C30_Observed(last.pre)) + 1

\* C31: the replay of a journal is idempotent: when load_fs has replayed a
\* journal on a snapshot, a second replay of the same journal on the metadata in
\* memory leaves the inode table and nextinode as they are.
C31_ReplayIdempotent ==
    (last.op = "load_fs" /\ last.pre.metadata # None /\ last.pre.log # None)
        => load_fs_replay(last.post, unwrap(last.pre.log)) = last.post

\* C32: whenever the kernel socket of a handle exists, SO_REUSEADDR,
\* SO_REUSEPORT and TCP_NODELAY are set on it exactly when they are set in the
\* handle, in every order of setsockopt calls and the creation of the kernel
\* socket.
C32_KernelOptionsFollowHandle ==
    \A fd \in OptFds :
        fdtable[fd].innersocket # None
            => unwrap(fdtable[fd].innersocket)
                  = (fdtable[fd].socket_options \cup fdtable[fd].tcp_options)
                       \cap ForwardedOptions

\* C33: every append to the journal is stored, whatever its length: no write
\* aborts on an entry that does not fit, the count never exceeds the size of the
\* data region, the region is as large as the struct records, and its size is
\* k times MAP_1MB minus the header for some k >= 1.
C33_AppendAlwaysFits ==
    /\ files.pc # "panicked"
    /\ files.count <= files.mapsize
    /\ Len(files.map) = files.mapsize
    /\ \E k \in 1..(MaxLogCalls + 1) : files.mapsize = k * MAP_1MB - COUNTMAPSIZE

\* C34: when a bind to a Unix-domain path returns 0, the entry of the name in
\* the parent directory, the Socket inode in the table and the inode number in
\* the unix_info of the socket that was bound all agree, also when another
\* bind to the same path runs at the same time.
C34_BindOwnsName ==
    [][\A t \in BindThreads :
          (threads[t].pc = "linked" /\ threads'[t].pc = "user" /\ files'.loaded)
              => LET truepath == threads[t].truepath
                     info == unwrap(fdtable'[BindFd[t]].unix_info)
                 IN  /\ metawalk(inodetable', truepath) = Some(info.inode)
                     /\ info.inode \in DOMAIN inodetable'
                     /\ inodetable'[info.inode].type = "Socket"]_vars

\* C35: a bind of an unbound socket that fails with EADDRINUSE or ENOENT leaves
\* the handle unbound: its local address is still absent when the call returns.
C35_FailedBindLeavesUnbound ==
    (/\ last.op = "bind"
     /\ last.err \in {"EADDRINUSE", "ENOENT"}
     /\ last.pre.localaddr = None)
        => last.post.localaddr = None

\* C36: shutdown never takes the descriptor out of the fd table: when
\* shutdown(fd, how) has returned 0, for each of SHUT_RD, SHUT_WR and SHUT_RDWR,
\* fd is still a socket of the cage.
C36_ShutdownKeepsFd ==
    (last.op = "shutdown" /\ last.err = "OK" /\ last.how \in Hows)
        => fdtable[last.fd].used

\* C37: every socket handle in state LISTEN has a local address, Unix-domain
\* as well as inet: listen on a never-bound socket binds it or fails.
C37_ListenHasLocalAddr ==
    \A fd \in Fds :
        (fdtable[fd].used /\ fdtable[fd].state = "LISTEN")
            => fdtable[fd].localaddr # None

\* C38: when an open registered fd is ready for an event of its registration
\* and maxevents is at least 1, epoll_wait returns at least one event, wherever
\* the ready fd stands among the registrations.
C38_ReadyFdIsReported ==
    (/\ last.op = "epoll_wait"
     /\ last.err = "OK"
     /\ last.args >= 1
     /\ \E k \in DOMAIN epoll_revents(fdtable[last.fd]) :
            epoll_revents(fdtable[last.fd])[k] # {})
        => last.n >= 1

\* C39: an fd that is only readable or writable, registered with the error
\* event among its events, is reported without the error event: no event that
\* epoll_wait returns, from the revents of poll, carries EPOLLERR for a socket
\* that has no error condition.
C39_NoErrorEventWithoutError ==
    (last.op = "epoll_wait" /\ last.err = "OK")
        => \A i \in 1..Len(last.data) : "EPOLLERR" \notin last.data[i].events

\* C40: when load_fs has replayed the journal and run fsck, every name in the
\* entry table of every directory that remains refers to an inode that is in
\* the inode table.
C40_NoDanglingEntries ==
    [][(~files.loaded /\ files'.loaded)
          => \A n \in DOMAIN inodetable' :
                inodetable'[n].type = "Dir"
                    => \A name \in DOMAIN inodetable'[n].dict :
                          inodetable'[n].dict[name] \in DOMAIN inodetable']_vars
====
